---- MODULE Spec2Model ----
(***************************************************************************)
(* A model of the topic-clustering evaluation library of sensemaking-tools *)
(* (embeddings_lib.py and evals_lib.py): the memoizing embedding provider, *)
(* the topic parser, the pairwise categorization diff, the pairwise        *)
(* analyses, the silhouette variants, and of its autorating helpers        *)
(* (vertex_model.py, hallucination_autorater.py).                          *)
(*                                                                         *)
(* Each component has a specification of its own (SpecEmb, SpecCentroid,   *)
(* SpecDiff, SpecParse, SpecAnalyze, SpecSim, SpecTopicCentered,           *)
(* SpecScores, SpecStats, SpecThreads, SpecProcess, SpecEvalsCopy,         *)
(* SpecRetry, SpecParallel, SpecRate): its Init draws the inputs from      *)
(* bounded sets, its actions are the component's functions, and the        *)
(* variables of the other components stay at their idle values.            *)
(***************************************************************************)
EXTENDS Integers, Sequences, FiniteSets, TLC

VARIABLES
  embeddings,          \* embeddings_lib.embeddings: the cache, text -> vector
  provider,            \* the external embedding model: text -> vector
  requests,            \* ghost: embed_content requests issued, per text
  emb_log,             \* ghost: the get_embedding calls made, in order
  sim_ret,             \* what get_cosine_similarity / get_cosine_distance returned
  cs_comments,         \* CentroidSilhouette.__comments
  cs_topics,           \* CentroidSilhouette.__topics
  cs_topic_centroids,  \* CentroidSilhouette.__topic_centroids
  cs_computed,         \* ghost: centroid computations of this instance, per topic
  cs_asked,            \* ghost: topics get_topic_centroid was asked for on this instance
  cs_ret,              \* what the last CentroidSilhouette method returned
  df1, df2,            \* arguments of get_pairwise_categorization_diffs
  diff_ret,            \* its outcome
  raw_col,             \* the topics column given to convert_topics_col_to_list
  topics_col,          \* the topics column it leaves
  data,                \* the list of dataframes given to analyze_*
  evals,               \* ghost: the pairwise evaluations an analysis made, in order
  analysis_ret,        \* the outcome of the analysis
  tss_1, tss_2,        \* arguments of get_topic_set_similarity
  tss_ret,             \* its outcome
  tc_comments,         \* the dataframe given to the topic_centered_* functions
  tc_ret,              \* what the last topic_centered_* call returned
  ar_values,           \* the list of values given to AnalysisResults
  ar_ret,              \* the outcome of constructing it
  thr,                 \* the get_embedding call each thread is in: its position and locals
  proc_last,           \* ghost: the last operation of the process and the cache it started from
  rc_max_retries,      \* retry_call: its argument max_retries
  rc_retry_delay_sec,  \* its argument retry_delay_sec
  rc_attempt,          \* the loop variable attempt
  rc_pc,               \* where the coroutine is
  rc_log,              \* ghost: the attempts made, each with what func and validator did
  rc_sleeps,           \* ghost: the delays slept, in order
  rc_ret,              \* the outcome of retry_call
  par_items,           \* run_tasks_in_parallel: its argument items
  par_limit,           \* its argument limit
  par_pc,              \* where each limited_task is
  par_invoked,         \* ghost: the invocations of func, per position of items
  par_results,         \* what func returned, per position of items
  par_order,           \* ghost: the positions in the order their tasks completed
  par_ret,             \* the outcome of run_tasks_in_parallel
  rate_llm,            \* ghost: what the LLM call of each evaluation did
  rate_df,             \* rate_hallucination: the rows of autorating_results_df
  rate_aggregated,     \* its aggregated_results
  rate_ret             \* its outcome

embVars == <<embeddings, provider, requests, emb_log, sim_ret>>
csVars == <<cs_comments, cs_topics, cs_topic_centroids, cs_computed, cs_asked, cs_ret>>
diffVars == <<df1, df2, diff_ret>>
parseVars == <<raw_col, topics_col>>
analyzeVars == <<data, evals, analysis_ret>>
simVars == <<tss_1, tss_2, tss_ret>>
tcVars == <<tc_comments, tc_ret>>
coreVars == <<embVars, csVars, diffVars, parseVars, analyzeVars, simVars, tcVars>>
statsVars == <<ar_values, ar_ret>>
thrVars == <<thr>>
procVars == <<proc_last>>
retryVars == <<rc_max_retries, rc_retry_delay_sec, rc_attempt, rc_pc, rc_log, rc_sleeps, rc_ret>>
parVars == <<par_items, par_limit, par_pc, par_invoked, par_results, par_order, par_ret>>
rateVars == <<rate_llm, rate_df, rate_aggregated, rate_ret>>
tailVars == <<retryVars, parVars, rateVars>>
lateVars == <<statsVars, thrVars, procVars, tailVars>>
vars == <<embVars, csVars, diffVars, parseVars, analyzeVars, simVars, tcVars, lateVars>>

(***************************************************************************)
(* Bounds of the model.                                                    *)
(***************************************************************************)
MaxCalls == 4        \* get_embedding calls in one behaviour of SpecEmb
MaxCompute == 3      \* centroid computations per topic and instance
MaxRows == 2         \* rows of an enumerated dataframe
MaxStrLen == 5       \* characters of an enumerated raw topics string
MaxData == 3         \* dataframes in the list given to an analysis
MaxValues == 3       \* values in a list given to AnalysisResults on its own
MaxThreads == 2      \* threads calling get_embedding concurrently
MaxThreadCalls == 2  \* get_embedding calls of one thread
MaxRetries == 3      \* the greatest max_retries retry_call is given
MaxItems == 3        \* items given to run_tasks_in_parallel
MaxLimit == 2        \* the greatest limit run_tasks_in_parallel is given
MaxSummaries == 2    \* summaries given to rate_hallucination

None == [kind |-> "none"]

(***************************************************************************)
(* Numbers.  A float is modelled as a rational [n, d] in lowest terms with *)
(* d > 0; NaN is the value with d = 0.                                     *)
(***************************************************************************)
NaN == [n |-> 0, d |-> 0]

IsNaN(x) == x.d = 0

Abs(i) == IF i < 0 THEN -i ELSE i

RECURSIVE GCD(_, _)
GCD(a, b) == IF b = 0 THEN a ELSE GCD(b, a % b)

Rat(num, den) ==
  IF den = 0 THEN NaN
  ELSE LET s == IF den < 0 THEN -1 ELSE 1
           g == GCD(Abs(num), Abs(den))
       IN  [n |-> (s * num) \div g, d |-> (s * den) \div g]

\* The sums, differences and quotients are formed over the least common
\* denominator, which keeps the integers of the model small.
RatAdd(x, y) ==
  IF IsNaN(x) \/ IsNaN(y) THEN NaN
  ELSE LET g == GCD(x.d, y.d)
       IN  Rat(x.n * (y.d \div g) + y.n * (x.d \div g), (x.d \div g) * y.d)

RatSub(x, y) ==
  IF IsNaN(x) \/ IsNaN(y) THEN NaN
  ELSE LET g == GCD(x.d, y.d)
       IN  Rat(x.n * (y.d \div g) - y.n * (x.d \div g), (x.d \div g) * y.d)

RatDiv(x, y) ==
  IF IsNaN(x) \/ IsNaN(y) \/ y.n = 0 THEN NaN
  ELSE LET gn == GCD(Abs(x.n), Abs(y.n))
           gd == GCD(x.d, y.d)
       IN  IF x.n = 0 THEN Rat(0, 1)
           ELSE Rat((x.n \div gn) * (y.d \div gd), (x.d \div gd) * (y.n \div gn))

\* x < y as floats compare: any comparison with NaN is false.
RatLt(x, y) ==
  /\ ~IsNaN(x) /\ ~IsNaN(y)
  /\ LET g == GCD(x.d, y.d) IN x.n * (y.d \div g) < y.n * (x.d \div g)

RECURSIVE RatSum(_)
RatSum(s) == IF s = <<>> THEN Rat(0, 1) ELSE RatAdd(Head(s), RatSum(Tail(s)))

\* The integer square root (exact on the norms of the vectors used here).
ISqrt(m) == CHOOSE r \in 0..m : r * r <= m /\ m < (r + 1) * (r + 1)

(***************************************************************************)
(* Lists.                                                                  *)
(***************************************************************************)
ToSet(s) == {s[i] : i \in DOMAIN s}

\* Sequences over S of length at most k.
SeqsUpTo(S, k) == UNION {[1..m -> S] : m \in 0..k}

\* The element of a set of one element: TheOne({e(x) : x \in {v}}) is e(v),
\* with v evaluated once.
TheOne(S) == CHOOSE x \in S : TRUE

\* The orders in which a finite set can be listed.
Orderings(S) ==
  {s \in [1..Cardinality(S) -> S] : \A i, j \in DOMAIN s : i # j => s[i] # s[j]}

\* The reorderings of a list.
Reorderings(s) ==
  {[i \in DOMAIN s |-> s[p[i]]] : p \in Orderings(DOMAIN s)}

(***************************************************************************)
(* embeddings_lib.py                                                       *)
(***************************************************************************)
CommentTexts == {"c1", "c2", "c3"}
TopicNames == {"t1", "t2", "t3"}
Texts == CommentTexts \cup TopicNames

\* The embedding models a behaviour may run against; each is deterministic.
\* The vectors have integer norms, and so have the sums of the vectors of
\* the comment texts "c1" and "c2", so that every cosine below is an exact
\* rational.
Providers ==
  { [t \in Texts |-> <<1, 0>>],
    ("c1" :> <<3, 4>>) @@ ("c2" :> <<-3, 4>>) @@ ("c3" :> <<4, 3>>)
      @@ ("t1" :> <<0, 1>>) @@ ("t2" :> <<1, 0>>) @@ ("t3" :> <<4, 3>>),
    ("c1" :> <<3, 4>>) @@ ("c2" :> <<3, 4>>) @@ ("c3" :> <<0, 1>>)
      @@ ("t1" :> <<1, 0>>) @@ ("t2" :> <<3, 4>>) @@ ("t3" :> <<4, 3>>) }

DefaultProvider == [t \in Texts |-> <<1, 0>>]

Dot(a, b) == a[1] * b[1] + a[2] * b[2]

NormSq(a) == Dot(a, a)

\* np.dot(a, b) / (np.linalg.norm(a) * np.linalg.norm(b)) on two vectors.
CosineOfVectors(a, b) == Rat(Dot(a, b), ISqrt(NormSq(a)) * ISqrt(NormSq(b)))

\* The state get_embedding reads and writes: the cache, with the ghost
\* request counters and call log.
EmbState == [cache |-> embeddings, requests |-> requests, log |-> emb_log]

GetEmbeddingNoStore(st, text) ==
  IF text \in DOMAIN st.cache
  THEN [st EXCEPT !.log = Append(@, [text |-> text, value |-> st.cache[text],
                                      cached |-> TRUE, requested |-> FALSE])]
  ELSE [cache |-> st.cache,
        requests |-> [st.requests EXCEPT ![text] = @ + 1],
        log |-> Append(st.log, [text |-> text, value |-> provider[text],
                                cached |-> FALSE, requested |-> TRUE])]

\* A cache that keeps the latest entry only.
GetEmbeddingEvicting(st, text) ==
  IF text \in DOMAIN st.cache
  THEN [st EXCEPT !.log = Append(@, [text |-> text, value |-> st.cache[text],
                                      cached |-> TRUE, requested |-> FALSE])]
  ELSE [cache |-> (text :> provider[text]),
        requests |-> [st.requests EXCEPT ![text] = @ + 1],
        log |-> Append(st.log, [text |-> text, value |-> provider[text],
                                cached |-> FALSE, requested |-> TRUE])]

\* get_embedding(comment_text): the state after the call; the value it
\* returns is the value of the last entry of the log.
GetEmbedding(st, text) ==
  IF text \in DOMAIN st.cache
  THEN [st EXCEPT !.log = Append(@, [text |-> text, value |-> st.cache[text],
                                      cached |-> TRUE, requested |-> FALSE])]
  ELSE [cache |-> st.cache @@ (text :> provider[text]),
        requests |-> [st.requests EXCEPT ![text] = @ + 1],
        log |-> Append(st.log, [text |-> text, value |-> provider[text],
                                cached |-> FALSE, requested |-> TRUE])]

Returned(st) == st.log[Len(st.log)].value

SetEmbState(st) ==
  /\ embeddings' = st.cache
  /\ requests' = st.requests
  /\ emb_log' = st.log

get_embedding(text) ==
  /\ Len(emb_log) < MaxCalls
  /\ SetEmbState(GetEmbedding(EmbState, text))
  /\ UNCHANGED <<lateVars, simVars, tcVars, provider, sim_ret, csVars, diffVars, parseVars, analyzeVars>>

\* get_cosine_similarity(a, b) on two strings: both are resolved through
\* get_embedding, a first.
get_cosine_similarity(a, b) ==
  /\ Len(emb_log) + 2 <= MaxCalls
  /\ LET st1 == GetEmbedding(EmbState, a)
         st2 == GetEmbedding(st1, b)
     IN  /\ SetEmbState(st2)
         /\ sim_ret' = [kind |-> "similarity", a |-> a, b |-> b,
                        value |-> CosineOfVectors(Returned(st1), Returned(st2))]
  /\ UNCHANGED <<lateVars, simVars, tcVars, provider, csVars, diffVars, parseVars, analyzeVars>>

get_cosine_distance_without_complement(a, b) ==
  /\ Len(emb_log) + 2 <= MaxCalls
  /\ LET st1 == GetEmbedding(EmbState, a)
         st2 == GetEmbedding(st1, b)
     IN  /\ SetEmbState(st2)
         /\ sim_ret' = [kind |-> "distance", a |-> a, b |-> b,
                        value |-> CosineOfVectors(Returned(st1), Returned(st2))]
  /\ UNCHANGED <<lateVars, simVars, tcVars, provider, csVars, diffVars, parseVars, analyzeVars>>

\* get_cosine_distance(a, b) = 1 - get_cosine_similarity(a, b).
get_cosine_distance(a, b) ==
  /\ Len(emb_log) + 2 <= MaxCalls
  /\ LET st1 == GetEmbedding(EmbState, a)
         st2 == GetEmbedding(st1, b)
     IN  /\ SetEmbState(st2)
         /\ sim_ret' = [kind |-> "distance", a |-> a, b |-> b,
                        value |-> RatSub(Rat(1, 1),
                                         CosineOfVectors(Returned(st1), Returned(st2)))]
  /\ UNCHANGED <<lateVars, simVars, tcVars, provider, csVars, diffVars, parseVars, analyzeVars>>

EmbIdle ==
  /\ embeddings = <<>>
  /\ requests = [t \in Texts |-> 0]
  /\ emb_log = <<>>
  /\ sim_ret = None

CsIdle ==
  /\ cs_comments = <<>>
  /\ cs_topics = <<>>
  /\ cs_topic_centroids = <<>>
  /\ cs_computed = <<>>
  /\ cs_asked = {}
  /\ cs_ret = None

DiffIdle == df1 = <<>> /\ df2 = <<>> /\ diff_ret = None

ParseIdle == raw_col = <<>> /\ topics_col = None

AnalyzeIdle == data = <<>> /\ evals = <<>> /\ analysis_ret = None

SimIdle == tss_1 = <<>> /\ tss_2 = <<>> /\ tss_ret = None

TcIdle == tc_comments = <<>> /\ tc_ret = None

StatsIdle == ar_values = <<>> /\ ar_ret = None

ThrIdle == thr = <<>>

ProcIdle == proc_last = None

RetryIdle ==
  /\ rc_max_retries = 0 /\ rc_retry_delay_sec = 0 /\ rc_attempt = 0
  /\ rc_pc = "idle" /\ rc_log = <<>> /\ rc_sleeps = <<>> /\ rc_ret = None

ParIdle ==
  /\ par_items = <<>> /\ par_limit = 0 /\ par_pc = <<>> /\ par_invoked = <<>>
  /\ par_results = <<>> /\ par_order = <<>> /\ par_ret = None

RateIdle ==
  /\ rate_llm = <<>> /\ rate_df = <<>> /\ rate_aggregated = None /\ rate_ret = None

TailIdle == RetryIdle /\ ParIdle /\ RateIdle

LateIdle == StatsIdle /\ ThrIdle /\ ProcIdle /\ TailIdle

InitEmb ==
  /\ EmbIdle
  /\ provider \in Providers
  /\ CsIdle /\ DiffIdle /\ ParseIdle /\ AnalyzeIdle
  /\ SimIdle /\ TcIdle /\ LateIdle

NextEmb ==
  \/ \E text \in Texts : get_embedding(text)
  \/ \E a, b \in Texts : get_cosine_similarity(a, b)
  \/ \E a, b \in Texts : get_cosine_distance(a, b)

SpecEmb == InitEmb /\ [][NextEmb]_vars

\* The calls of the log before the i-th that were made with the same string.
EarlierCalls(i) == {j \in 1..(i - 1) : emb_log[j].text = emb_log[i].text}

\* C1: in any sequence of get_embedding calls, a call issues the external
\* request exactly when its string is not yet in the cache (no earlier call
\* was made with that exact string) and its result is stored under that
\* string; every later call with the same string returns the stored vector
\* and issues no request, so at most one request is issued per string.
C1_OneRequestPerString ==
  /\ \A i \in DOMAIN emb_log :
       /\ emb_log[i].requested <=> (EarlierCalls(i) = {})
       /\ emb_log[i].cached <=> (EarlierCalls(i) # {})
       /\ emb_log[i].text \in DOMAIN embeddings
       /\ emb_log[i].value = embeddings[emb_log[i].text]
       /\ \A j \in EarlierCalls(i) : emb_log[i].value = emb_log[j].value
  /\ \A t \in Texts :
       /\ requests[t] = Cardinality({i \in DOMAIN emb_log :
                                       emb_log[i].text = t /\ emb_log[i].requested})
       /\ requests[t] <= 1
       /\ t \in DOMAIN embeddings <=> \E i \in DOMAIN emb_log : emb_log[i].text = t

\* A string asked for twice, and another string asked for in between.
C1_Witness ==
  /\ Len(emb_log) >= 3
  /\ emb_log[1].text = emb_log[3].text
  /\ emb_log[2].text # emb_log[1].text
  /\ emb_log[3].cached /\ ~emb_log[3].requested
  /\ requests[emb_log[1].text] = 1

(***************************************************************************)
(* evals_lib.py: dataframes.  A dataframe is the list of its rows; a row   *)
(* has a comment-id, a comment_text and a topics list.                     *)
(***************************************************************************)
CommentIds == {1, 2}

TextOfId == (1 :> "c1") @@ (2 :> "c2")

TopicLists == {<<"t1">>, <<"t1", "t2">>, <<"t2", "t1">>}

Rows ==
  {[id |-> i, text |-> TextOfId[i], topics |-> ts] : i \in CommentIds, ts \in TopicLists}

DataFrames == SeqsUpTo(Rows, MaxRows)

Ids(df) == {df[i].id : i \in DOMAIN df}

UniqueIds(df) == \A i, j \in DOMAIN df : df[i].id = df[j].id => i = j

Return(v) == [kind |-> "return", value |-> v]

Raise(e) == [kind |-> "raise", error |-> e]

(***************************************************************************)
(* get_pairwise_categorization_diffs                                       *)
(***************************************************************************)
SymDiff(S, T) == (S \ T) \cup (T \ S)

\* df2[df2[COMMENT_ID_COL].eq(id)]: the rows of df2 with that id, in order.
MatchingRows(df, id) == SelectSeq(df, LAMBDA r : r.id = id)

RowDiffSkipsUnmatched(a, i, b) ==
  LET matching_row == MatchingRows(b, a[i].id)
  IN  IF matching_row = <<>>
      THEN [err |-> FALSE, inc |-> 0]
      ELSE LET unique_diffs == SymDiff(ToSet(a[i].topics), ToSet(matching_row[1].topics))
           IN  [err |-> FALSE, inc |-> IF Cardinality(unique_diffs) >= 1 THEN 1 ELSE 0]

RowDiffOneSided(a, i, b) ==
  LET matching_row == MatchingRows(b, a[i].id)
  IN  IF matching_row = <<>>
      THEN [err |-> TRUE, inc |-> 0]
      ELSE LET unique_diffs == ToSet(a[i].topics) \ ToSet(matching_row[1].topics)
           IN  [err |-> FALSE, inc |-> IF Cardinality(unique_diffs) >= 1 THEN 1 ELSE 0]

RowDiffCountsAll(a, i, b) ==
  LET matching_row == MatchingRows(b, a[i].id)
  IN  IF matching_row = <<>>
      THEN [err |-> TRUE, inc |-> 0]
      ELSE LET unique_diffs == SymDiff(ToSet(a[i].topics), ToSet(matching_row[1].topics))
           IN  [err |-> FALSE, inc |-> IF Cardinality(unique_diffs) >= 0 THEN 1 ELSE 0]

RowDiffByPosition(a, i, b) ==
  IF i > Len(b)
  THEN [err |-> TRUE, inc |-> 0]
  ELSE LET unique_diffs == SymDiff(ToSet(a[i].topics), ToSet(b[i].topics))
       IN  [err |-> FALSE, inc |-> IF Cardinality(unique_diffs) >= 1 THEN 1 ELSE 0]

\* The body of the loop for the i-th row of df1: an IndexError when no row
\* of df2 has its id (.iloc[0] of an empty selection), else whether the
\* two topic sets differ.
RowDiff(a, i, b) ==
  LET matching_row == MatchingRows(b, a[i].id)
  IN  IF matching_row = <<>>
      THEN [err |-> TRUE, inc |-> 0]
      ELSE LET unique_diffs == SymDiff(ToSet(a[i].topics), ToSet(matching_row[1].topics))
           IN  [err |-> FALSE, inc |-> IF Cardinality(unique_diffs) >= 1 THEN 1 ELSE 0]

\* for _, row in df1.iterrows(): the rows from the i-th on, count_diffs so far.
RECURSIVE CountDiffs(_, _, _, _)
CountDiffs(a, b, i, count_diffs) ==
  IF i > Len(a) THEN Return(count_diffs)
  ELSE LET o == RowDiff(a, i, b)
       IN  IF o.err THEN Raise("IndexError")
           ELSE CountDiffs(a, b, i + 1, count_diffs + o.inc)

\* count_diffs / df1.shape[0]: a division of two ints.
get_pairwise_categorization_diffs(a, b) ==
  LET c == CountDiffs(a, b, 1, 0)
  IN  IF c.kind = "raise" THEN c
      ELSE IF Len(a) = 0 THEN Raise("ZeroDivisionError")
      ELSE Return(Rat(c.value, Len(a)))

DiffCall ==
  /\ diff_ret = None
  /\ diff_ret' = get_pairwise_categorization_diffs(df1, df2)
  /\ UNCHANGED <<lateVars, simVars, tcVars, df1, df2, embVars, csVars, parseVars, analyzeVars>>

InitDiff ==
  /\ df1 \in DataFrames
  /\ df2 \in DataFrames
  /\ diff_ret = None
  /\ EmbIdle /\ provider = DefaultProvider
  /\ CsIdle /\ ParseIdle /\ AnalyzeIdle
  /\ SimIdle /\ TcIdle /\ LateIdle

NextDiff == DiffCall

SpecDiff == InitDiff /\ [][NextDiff]_vars

\* The rows of A whose topic set is not that of the row of B with the same id.
DifferingRows(A, B) ==
  {i \in DOMAIN A :
     \E j \in DOMAIN B :
        /\ B[j].id = A[i].id
        /\ \E t \in TopicNames : (t \in ToSet(A[i].topics)) # (t \in ToSet(B[j].topics))}

\* C3: when some row of A has a comment-id that no row of B has, the call
\* raises a lookup error (IndexError) and so returns no rate.
C3_UnmatchedIdRaises ==
  (diff_ret # None /\ \E i \in DOMAIN df1 : df1[i].id \notin Ids(df2))
     => diff_ret = Raise("IndexError")

C3_Witness ==
  /\ diff_ret = Raise("IndexError")
  /\ Len(df1) = 2 /\ df1[1].id \in Ids(df2) /\ df1[2].id \notin Ids(df2)

\* C4: when every id of A occurs in B (once), the call returns the number
\* of rows of A whose topic set differs from that of the B row with the
\* same id, divided by the number of rows of A.
C4_RateOfDifferingRows ==
  (diff_ret # None /\ df1 # <<>> /\ Ids(df1) \subseteq Ids(df2) /\ UniqueIds(df2))
     => diff_ret = Return(Rat(Cardinality(DifferingRows(df1, df2)), Len(df1)))

C4_Witness ==
  /\ diff_ret = Return(Rat(1, 2))
  /\ Len(df1) = 2 /\ UniqueIds(df1) /\ UniqueIds(df2)
  /\ df1[1].id = df2[2].id

\* C5 as stated: a dataframe compared to itself gives 0.0, whatever the
\* dataframe (comment-ids unique, as the data model has them).
C5_SelfDiffIsZero ==
  (diff_ret # None /\ df1 = df2 /\ UniqueIds(df1)) => diff_ret = Return(Rat(0, 1))

\* C5 as amended: a non-empty dataframe with unique comment-ids compared
\* to itself gives 0.0.
C5_NonEmptySelfDiffIsZero ==
  (diff_ret # None /\ df1 = df2 /\ UniqueIds(df1) /\ df1 # <<>>)
     => diff_ret = Return(Rat(0, 1))

C5_Witness ==
  /\ diff_ret = Return(Rat(0, 1))
  /\ df1 = df2 /\ Len(df1) = 2 /\ UniqueIds(df1)

\* C6: rows are joined by comment-id, not by position: with unique
\* comment-ids, reordering the rows of B, or of A, leaves the outcome of
\* the call unchanged.
C6_OrderDoesNotMatter ==
  (diff_ret # None /\ UniqueIds(df1) /\ UniqueIds(df2)) =>
     /\ \A b \in Reorderings(df2) : get_pairwise_categorization_diffs(df1, b) = diff_ret
     /\ \A a \in Reorderings(df1) : get_pairwise_categorization_diffs(a, df2) = diff_ret

\* Two dataframes that list the same two comments in opposite orders and
\* disagree on one of them.
C6_Witness ==
  /\ diff_ret = Return(Rat(1, 2))
  /\ Len(df1) = 2 /\ Len(df2) = 2 /\ UniqueIds(df1) /\ UniqueIds(df2)
  /\ df1[1].id = df2[2].id /\ df1[2].id = df2[1].id

(***************************************************************************)
(* convert_topics_col_to_list.  A string is the sequence of its            *)
(* characters; a topic name is a string.                                   *)
(***************************************************************************)
Alphabet == {"a", "b", ":", ";"}

\* The name lists the list-like and the raw encodings below are built from.
NameLists == {<<"a">>, <<"a", "b">>, <<"b", "a">>, <<"a", "a">>}

\* The text Python writes for a list of names: ['a', 'b'].
RECURSIVE ListItems(_)
ListItems(ns) ==
  IF ns = <<>> THEN <<>>
  ELSE <<"'", Head(ns), "'">> \o
       (IF Tail(ns) = <<>> THEN <<>> ELSE <<",", " ">> \o ListItems(Tail(ns)))

ListText(ns) == <<"[">> \o ListItems(ns) \o <<"]">>

\* The raw text name:subtopic;... for the same names: a:x;b:x.
RECURSIVE RawText(_)
RawText(ns) ==
  IF ns = <<>> THEN <<>>
  ELSE <<Head(ns), ":", "x">> \o
       (IF Tail(ns) = <<>> THEN <<>> ELSE <<";">> \o RawText(Tail(ns)))

EncodedTexts == {ListText(ns) : ns \in NameLists} \cup {RawText(ns) : ns \in NameLists}

\* The topics columns given to the parser: one row holding any string over
\* the alphabet, or one or two rows holding encoded name lists.
RawColumns ==
  {<<str>> : str \in SeqsUpTo(Alphabet, MaxStrLen)}
    \cup {<<str>> : str \in EncodedTexts}
    \cup {<<s1, s2>> : s1 \in EncodedTexts, s2 \in EncodedTexts}

\* str.split(sep): the pieces between the occurrences of sep, in order;
\* a string without sep (the empty string too) is its own single piece.
RECURSIVE Split(_, _)
Split(str, sep) ==
  IF \A k \in DOMAIN str : str[k] # sep THEN <<str>>
  ELSE LET k == CHOOSE k \in DOMAIN str :
                   str[k] = sep /\ \A m \in 1..(k - 1) : str[m] # sep
       IN  <<SubSeq(str, 1, k - 1)>> \o Split(SubSeq(str, k + 1, Len(str)), sep)

FirstFieldIsLast(segment) ==
  LET fields == Split(segment, ":") IN fields[Len(fields)]

\* i.split(":")[0]
FirstField(segment) == Split(segment, ":")[1]

TopicSetDropsEmpty(str) ==
  LET segments == Split(str, ";")
  IN  {FirstField(segments[k]) : k \in DOMAIN segments} \ {<<>>}

\* set([i.split(":")[0] for i in x]) for x = str.split(";")
TopicSet(str) ==
  LET segments == Split(str, ";")
  IN  {FirstField(segments[k]) : k \in DOMAIN segments}

\* The columns convert_topics_col_to_list may leave: row by row
\* list(set(...)), a list of the set in the order the set happens to iterate.
ConvertedColumns(col) ==
  {c \in [DOMAIN col -> UNION {Orderings(TopicSet(col[i])) : i \in DOMAIN col}] :
     \A i \in DOMAIN col : c[i] \in Orderings(TopicSet(col[i]))}

convert_topics_col_to_list ==
  /\ topics_col = None
  /\ \E c \in ConvertedColumns(raw_col) : topics_col' = Return(c)
  /\ UNCHANGED <<lateVars, simVars, tcVars, raw_col, embVars, csVars, diffVars, analyzeVars>>

InitParse ==
  /\ raw_col \in RawColumns
  /\ topics_col = None
  /\ EmbIdle /\ provider = DefaultProvider
  /\ CsIdle /\ DiffIdle /\ AnalyzeIdle
  /\ SimIdle /\ TcIdle /\ LateIdle

NextParse == convert_topics_col_to_list

SpecParse == InitParse /\ [][NextParse]_vars

\* The positions at which a ';'-delimited segment of the string starts.
SegmentStarts(str) == {1} \cup {p \in 2..(Len(str) + 1) : str[p - 1] = ";"}

\* The text from position p up to the next ':' or ';' (or the end).
NameAt(str, p) ==
  LET q == CHOOSE q \in p..(Len(str) + 1) :
             /\ q = Len(str) + 1 \/ str[q] \in {":", ";"}
             /\ \A k \in p..(q - 1) : str[k] \notin {":", ";"}
  IN  SubSeq(str, p, q - 1)

ExpectedNames(str) == {NameAt(str, p) : p \in SegmentStarts(str)}

\* C7: each row's topics become the duplicate-free collection of the names
\* of its ';'-delimited segments, the name of a segment being its text
\* before the first ':' (all of it when it has none).
C7_ParsedNames ==
  topics_col # None =>
    \A i \in DOMAIN raw_col :
       LET row == topics_col.value[i]
       IN  /\ ToSet(row) = ExpectedNames(raw_col[i])
           /\ \A j, k \in DOMAIN row : row[j] = row[k] => j = k

\* "a:b;a" and the like: two segments with the same name give it once.
C7_Witness ==
  /\ topics_col # None
  /\ Len(raw_col) = 1
  /\ Len(Split(raw_col[1], ";")) = 2
  /\ \E k \in DOMAIN raw_col[1] : raw_col[1][k] = ":"
  /\ topics_col.value[1] = <<(<<"a">>)>>

\* Whether some segment of the string is empty or starts with ':'.
HasNamelessSegment(str) ==
  \E p \in SegmentStarts(str) : p = Len(str) + 1 \/ str[p] \in {":", ";"}

\* C8 as stated: after parsing, no row's topics contain the empty string.
C8_NoEmptyName ==
  topics_col # None =>
    \A i \in DOMAIN raw_col : <<>> \notin ToSet(topics_col.value[i])

\* C8 as amended: after parsing, a row's topics contain the empty string
\* exactly when its topics string has an empty segment or a segment that
\* starts with ':'; strings whose segments all start with a name character
\* give no empty name.
C8_EmptyNameIffNamelessSegment ==
  topics_col # None =>
    \A i \in DOMAIN raw_col :
       (<<>> \in ToSet(topics_col.value[i])) <=> HasNamelessSegment(raw_col[i])

C8_Witness ==
  /\ topics_col # None
  /\ Len(raw_col) = 1
  /\ Len(Split(raw_col[1], ";")) = 3
  /\ ~HasNamelessSegment(raw_col[1])
  /\ <<>> \notin ToSet(topics_col.value[1])

\* C9: a topics field holding list-like text that lists the names n1..nk
\* parses to the topic set {n1..nk}, the set the raw text n1:s;...;nk:s
\* parses to.
C9_ListTextGivesItsNames ==
  topics_col # None =>
    \A i \in DOMAIN raw_col : \A ns \in NameLists :
       raw_col[i] = ListText(ns) =>
          /\ ToSet(topics_col.value[i]) = {<<ns[k]>> : k \in DOMAIN ns}
          /\ ToSet(topics_col.value[i]) = TopicSet(RawText(ns))

(***************************************************************************)
(* CentroidSilhouette                                                      *)
(***************************************************************************)
\* The float nan that Series.explode() puts in the place of an empty list.
NaNTopic == "nan"

Row(i, text, topics) == [id |-> i, text |-> text, topics |-> topics]

\* The dataframes an instance is bound to: disjoint topics, a comment that
\* carries every topic, a comment without topics, three topics of one
\* comment each, and a topic of two comments beside a topic of one.
CsFrames ==
  { <<Row(1, "c1", <<"t1">>), Row(2, "c2", <<"t2">>)>>,
    <<Row(1, "c1", <<"t1", "t2">>), Row(2, "c2", <<"t1">>)>>,
    <<Row(1, "c1", <<"t1">>), Row(2, "c2", <<>>)>>,
    <<Row(1, "c1", <<"t1">>), Row(2, "c2", <<"t2">>), Row(3, "c3", <<"t3">>)>>,
    <<Row(1, "c1", <<"t1">>), Row(2, "c2", <<"t1">>), Row(3, "c3", <<"t2">>)>> }

(***************************************************************************)
(* AnalysisResults                                                         *)
(***************************************************************************)
\* np.mean(values): nan for an empty list, and for a list holding a nan.
Mean(values) ==
  IF values = <<>> THEN NaN ELSE RatDiv(RatSum(values), Rat(Len(values), 1))

HasNaN(values) == \E i \in DOMAIN values : IsNaN(values[i])

\* np.min(values) / np.max(values) of a non-empty list: nan when it holds one.
NpMin(values) ==
  IF HasNaN(values) THEN NaN
  ELSE CHOOSE v \in ToSet(values) : \A w \in ToSet(values) : ~RatLt(w, v)

NpMax(values) ==
  IF HasNaN(values) THEN NaN
  ELSE CHOOSE v \in ToSet(values) : \A w \in ToSet(values) : ~RatLt(v, w)

\* The sample variance: the squared deviations summed and divided by n - 1.
SampleVariance(values) ==
  LET m == Mean(values)
      sq(x) == IF IsNaN(x) THEN NaN ELSE Rat(x.n * x.n, x.d * x.d)
  IN  RatDiv(RatSum([i \in DOMAIN values |-> sq(RatSub(values[i], m))]),
             Rat(Len(values) - 1, 1))

\* np.std(values) squared: the mean of the squared deviations from the mean.
Variance(values) ==
  LET m == Mean(values)
      dev(i) == RatSub(values[i], m)
      sq(x) == IF IsNaN(x) THEN NaN ELSE Rat(x.n * x.n, x.d * x.d)
  IN  Mean([i \in DOMAIN values |-> sq(dev(i))])

AnalysisResultsSkipsNaN(values) ==
  LET kept == SelectSeq(values, LAMBDA x : ~IsNaN(x))
  IN  IF kept = <<>> THEN Raise("ValueError")
      ELSE Return([mean |-> Mean(kept), stdev_squared |-> Variance(kept),
                   min |-> NpMin(kept), max |-> NpMax(kept)])

AnalysisResultsZeroOnEmpty(values) ==
  IF values = <<>>
  THEN Return([mean |-> Rat(0, 1), stdev_squared |-> Rat(0, 1),
               min |-> Rat(0, 1), max |-> Rat(0, 1)])
  ELSE Return([mean |-> Mean(values), stdev_squared |-> Variance(values),
               min |-> NpMin(values), max |-> NpMax(values)])

\* AnalysisResults(values): np.mean and np.std of an empty list are nan,
\* np.min of an empty list raises ValueError.
AnalysisResults(values) ==
  IF values = <<>> THEN Raise("ValueError")
  ELSE Return([mean |-> Mean(values), stdev_squared |-> Variance(values),
               min |-> NpMin(values), max |-> NpMax(values)])

(***************************************************************************)
(* Functions of a comments dataframe                                       *)
(***************************************************************************)
\* comments[TOPICS_COL].explode(): one entry per list element, and nan for
\* an empty list.
RECURSIVE Explode(_)
Explode(df) ==
  IF df = <<>> THEN <<>>
  ELSE (IF Head(df).topics = <<>> THEN <<NaNTopic>> ELSE Head(df).topics)
       \o Explode(Tail(df))

KeepDuplicates(s) == s

\* Series.unique(): the distinct values in the order of first appearance.
RECURSIVE Unique(_)
Unique(s) ==
  IF s = <<>> THEN <<>>
  ELSE LET init == Unique(SubSeq(s, 1, Len(s) - 1))
           last == s[Len(s)]
       IN  IF last \in ToSet(init) THEN init ELSE Append(init, last)

AllComments(comments, topic_name) == comments

\* get_topic_comments: the rows whose topics list contains the name.
get_topic_comments(comments, topic_name) ==
  SelectSeq(comments, LAMBDA r : topic_name \in ToSet(r.topics))

CommentTextCol(df) == [i \in DOMAIN df |-> df[i].text]

\* [get_embedding(ct) for ct in texts]: the embedding state after the
\* calls, and the vectors they returned.
RECURSIVE EmbedAll(_, _)
EmbedAll(st, texts) ==
  IF texts = <<>> THEN [st |-> st, values |-> <<>>]
  ELSE LET st1 == GetEmbedding(st, Head(texts))
           rest == EmbedAll(st1, Tail(texts))
       IN  [st |-> rest.st, values |-> <<Returned(st1)>> \o rest.values]

\* np.mean(np.stack(vectors), axis=0)
VecMean(vectors) ==
  [k \in 1..2 |->
     RatDiv(RatSum([i \in DOMAIN vectors |-> Rat(vectors[i][k], 1)]),
            Rat(Len(vectors), 1))]

\* An integer vector with the direction of a rational vector (the cosine
\* does not depend on the length).
IntDirection(c) == <<c[1].n * c[2].d, c[2].n * c[1].d>>

\* The state a CentroidSilhouette method reads and writes: the instance's
\* centroid mapping (with its ghost counters) and the embedding state.
CsState ==
  [comments |-> cs_comments, topics |-> cs_topics,
   centroids |-> cs_topic_centroids, computed |-> cs_computed, asked |-> cs_asked,
   emb |-> EmbState]

\* CentroidSilhouette(comments), constructed in embedding state st.
NewCentroidSilhouette(st, comments) ==
  [comments |-> comments, topics |-> Unique(Explode(comments)),
   centroids |-> <<>>, computed |-> [t \in TopicNames \cup {NaNTopic} |-> 0],
   asked |-> {}, emb |-> st]

\* get_topic_centroid(topic_name): the state after the call and its outcome.
GetTopicCentroid(c, topic_name) ==
  IF topic_name \in DOMAIN c.centroids
  THEN [c |-> c, out |-> Return(c.centroids[topic_name])]
  ELSE LET comment_texts == CommentTextCol(get_topic_comments(c.comments, topic_name))
       IN  IF comment_texts = <<>>
           THEN [c |-> c, out |-> Raise("ValueError")]
           ELSE TheOne({ [c |-> [c EXCEPT !.emb = e.st,
                                          !.computed[topic_name] = @ + 1,
                                          !.asked = @ \cup {topic_name}],
                          out |-> Return(VecMean(e.values))] :
                         e \in {EmbedAll(c.emb, comment_texts)} })

\* get_cosine_distance(centroid, ct) for each text, and np.mean of them.
MeanDistance(centroid, vectors) ==
  RatDiv(RatSum([i \in DOMAIN vectors |->
                   RatSub(Rat(1, 1), CosineOfVectors(IntDirection(centroid), vectors[i]))]),
         Rat(Len(vectors), 1))

\* topic_cohesion(topic_name)
TopicCohesion(c, topic_name) ==
  TheOne({ IF g.out.kind = "raise" THEN g
           ELSE TheOne({ [c |-> [g.c EXCEPT !.emb = e.st],
                          out |-> Return(MeanDistance(g.out.value, e.values))] :
                         e \in {EmbedAll(g.c.emb,
                                         CommentTextCol(get_topic_comments(c.comments,
                                                                           topic_name)))} }) :
           g \in {GetTopicCentroid(c, topic_name)} })

NameOrder == ("t1" :> 1) @@ ("t2" :> 2) @@ ("t3" :> 3) @@ (NaNTopic :> 0)

TupleLtNameFirst(x, y) ==
  IF x.topic # y.topic
  THEN NameOrder[x.topic] < NameOrder[y.topic]
  ELSE RatLt(x.distance, y.distance)

\* x < y on (distance, topic) tuples: the first components decide unless
\* they are equal, and then the names do.
TupleLt(x, y) ==
  IF ~IsNaN(x.distance) /\ x.distance = y.distance
  THEN NameOrder[x.topic] < NameOrder[y.topic]
  ELSE RatLt(x.distance, y.distance)

\* min(distances): the first element that no later one is less than.
RECURSIVE Min(_)
Min(s) ==
  IF Len(s) = 1 THEN s[1]
  ELSE LET m == Min(SubSeq(s, 1, Len(s) - 1))
       IN  IF TupleLt(s[Len(s)], m) THEN s[Len(s)] ELSE m

\* The distance of a comment's text to a centroid, appended to distances
\* with the topic; the embedding state after get_cosine_distance.
DistanceToCentroid(g, comment, topic, distances) ==
  TheOne({ [c |-> [g.c EXCEPT !.emb = st],
            distances |->
              Append(distances,
                     [distance |-> RatSub(Rat(1, 1),
                                          CosineOfVectors(IntDirection(g.out.value),
                                                          Returned(st))),
                      topic |-> topic])] :
           st \in {GetEmbedding(g.c.emb, comment.text)} })

\* The loop of comment_separation from the k-th topic on.
RECURSIVE SeparationLoop(_, _, _, _)
SeparationLoop(c, comment, k, distances) ==
  IF k > Len(c.topics)
  THEN [c |-> c,
        out |-> IF distances = <<>>
                THEN Return([distance |-> NaN, topic |-> "None"])
                ELSE Return(Min(distances))]
  ELSE IF c.topics[k] \in ToSet(comment.topics)
       THEN SeparationLoop(c, comment, k + 1, distances)
       ELSE TheOne({ IF g.out.kind = "raise" THEN g
                     ELSE TheOne({ SeparationLoop(d.c, comment, k + 1, d.distances) :
                                   d \in {DistanceToCentroid(g, comment, c.topics[k],
                                                             distances)} }) :
                     g \in {GetTopicCentroid(c, c.topics[k])} })

CommentSeparationNoGuard(c, comment) ==
  TheOne({ IF r.out = Return([distance |-> NaN, topic |-> "None"])
           THEN [c |-> r.c, out |-> Raise("ValueError")]
           ELSE r :
           r \in {SeparationLoop(c, comment, 1, <<>>)} })

\* comment_separation(comment)
CommentSeparation(c, comment) == SeparationLoop(c, comment, 1, <<>>)

\* [self.comment_separation(comment)[0] for comment in records]: the first
\* call that raises ends the loop.
RECURSIVE SeparationsOf(_, _, _)
SeparationsOf(c, records, separations) ==
  IF records = <<>> THEN [c |-> c, out |-> Return(separations)]
  ELSE TheOne({ IF r.out.kind = "raise" THEN r
                ELSE SeparationsOf(r.c, Tail(records),
                                   Append(separations, r.out.value.distance)) :
                r \in {CommentSeparation(c, Head(records))} })

\* topic_separation(topic_name): np.mean of the members' separations.
TopicSeparation(c, topic_name) ==
  TheOne({ IF r.out.kind = "raise" THEN r
           ELSE [c |-> r.c, out |-> Return(Mean(r.out.value))] :
           r \in {SeparationsOf(c, get_topic_comments(c.comments, topic_name), <<>>)} })

\* max(a, b) of two floats: b if b > a, else a.
PyMax(a, b) == IF RatLt(a, b) THEN b ELSE a

SilhouetteScoreOverCohesion(cohesion, separation) ==
  RatDiv(RatSub(separation, cohesion), cohesion)

\* (separation - cohesion) / max(cohesion, separation) on numpy floats:
\* nan when an operand is nan, and for 0 / 0.
SilhouetteScore(cohesion, separation) ==
  RatDiv(RatSub(separation, cohesion), PyMax(cohesion, separation))

\* topic_silhouette(topic_name)
TopicSilhouette(c, topic_name) ==
  TheOne({ IF co.out.kind = "raise" THEN co
           ELSE TheOne({ IF se.out.kind = "raise" THEN se
                         ELSE [c |-> se.c,
                               out |-> Return(SilhouetteScore(co.out.value,
                                                              se.out.value))] :
                         se \in {TopicSeparation(co.c, topic_name)} }) :
           co \in {TopicCohesion(c, topic_name)} })

\* [self.topic_silhouette(topic) for topic in self.__topics] from the k-th
\* topic on.
RECURSIVE TopicScores(_, _, _)
TopicScores(c, k, topic_scores) ==
  IF k > Len(c.topics) THEN [c |-> c, out |-> Return(topic_scores)]
  ELSE TheOne({ IF r.out.kind = "raise" THEN r
                ELSE TopicScores(r.c, k + 1, Append(topic_scores, r.out.value)) :
                r \in {TopicSilhouette(c, c.topics[k])} })

\* silhouette(): AnalysisResults of the topic scores.
Silhouette(c) ==
  TheOne({ IF r.out.kind = "raise" THEN r
           ELSE [c |-> r.c, out |-> AnalysisResults(r.out.value)] :
           r \in {TopicScores(c, 1, <<>>)} })

SetCsState(r, method, arg) ==
  /\ cs_topic_centroids' = r.c.centroids
  /\ cs_computed' = r.c.computed
  /\ cs_asked' = r.c.asked
  /\ embeddings' = r.c.emb.cache
  /\ requests' = r.c.emb.requests
  /\ cs_ret' = [method |-> method, arg |-> arg, out |-> r.out]
  /\ UNCHANGED <<lateVars, simVars, tcVars, cs_comments, cs_topics, provider, emb_log, sim_ret,
                 diffVars, parseVars, analyzeVars>>

\* CentroidSilhouette(comments): a new instance replaces the current one.
CentroidSilhouette(comments) ==
  /\ cs_comments' = comments
  /\ cs_topics' = Unique(Explode(comments))
  /\ cs_topic_centroids' = <<>>
  /\ cs_computed' = [t \in TopicNames \cup {NaNTopic} |-> 0]
  /\ cs_asked' = {}
  /\ cs_ret' = None
  /\ UNCHANGED <<lateVars, simVars, tcVars, embVars, diffVars, parseVars, analyzeVars>>

\* The model stops counting at MaxCompute computations of one centroid.
WithinBound(r) == \A t \in DOMAIN r.c.computed : r.c.computed[t] <= MaxCompute

get_topic_centroid(topic_name) ==
  \E r \in {GetTopicCentroid(CsState, topic_name)} :
    /\ WithinBound(r)
    /\ SetCsState(r, "get_topic_centroid", topic_name)

topic_cohesion(topic_name) ==
  \E r \in {TopicCohesion(CsState, topic_name)} :
    /\ WithinBound(r)
    /\ SetCsState(r, "topic_cohesion", topic_name)

comment_separation(i) ==
  \E r \in {CommentSeparation(CsState, cs_comments[i])} :
    /\ WithinBound(r)
    /\ SetCsState(r, "comment_separation", cs_comments[i].text)

topic_separation(topic_name) ==
  \E r \in {TopicSeparation(CsState, topic_name)} :
    /\ WithinBound(r)
    /\ SetCsState(r, "topic_separation", topic_name)

topic_silhouette(topic_name) ==
  \E r \in {TopicSilhouette(CsState, topic_name)} :
    /\ WithinBound(r)
    /\ SetCsState(r, "topic_silhouette", topic_name)

silhouette ==
  \E r \in {Silhouette(CsState)} :
    /\ WithinBound(r)
    /\ SetCsState(r, "silhouette", "")

InitCentroid ==
  /\ cs_comments \in CsFrames
  /\ cs_topics = Unique(Explode(cs_comments))
  /\ cs_topic_centroids = <<>>
  /\ cs_computed = [t \in TopicNames \cup {NaNTopic} |-> 0]
  /\ cs_asked = {}
  /\ cs_ret = None
  /\ EmbIdle /\ provider \in Providers
  /\ DiffIdle /\ ParseIdle /\ AnalyzeIdle
  /\ SimIdle /\ TcIdle /\ LateIdle

NextCentroid ==
  \/ \E comments \in CsFrames : CentroidSilhouette(comments)
  \/ \E t \in TopicNames : get_topic_centroid(t)
  \/ \E t \in TopicNames : topic_cohesion(t)
  \/ \E i \in DOMAIN cs_comments : comment_separation(i)
  \/ \E t \in TopicNames : topic_separation(t)
  \/ \E t \in TopicNames : topic_silhouette(t)
  \/ silhouette

SpecCentroid == InitCentroid /\ [][NextCentroid]_vars

\* C2: on one instance the first get_topic_centroid(t) computes the
\* centroid of t and stores it in the instance's mapping, and no later call
\* (direct, or through topic_cohesion / comment_separation) computes it
\* again: a topic the instance was asked for is in the mapping and was
\* computed once.
C2_CentroidComputedOnce ==
  \A t \in cs_asked : t \in DOMAIN cs_topic_centroids /\ cs_computed[t] <= 1

(***************************************************************************)
(* The topic-centered silhouette: the embedding of the topic name is the   *)
(* center of the topic's cluster.                                          *)
(***************************************************************************)
\* The array of nans that get_cosine_distance returns when its first
\* argument is the float nan of the vocabulary (not a string, so it is not
\* embedded, and np.dot(nan, vector) is a vector of nans).
NaNArray == [n |-> 0, d |-> 0, array |-> TRUE]

\* get_cosine_distance(a, b) on two strings: the embedding state after the
\* call and the distance.
CosineDistance(st, a, b) ==
  TheOne({ TheOne({ [st |-> st2,
                     value |-> RatSub(Rat(1, 1),
                                      CosineOfVectors(Returned(st1), Returned(st2)))] :
                    st2 \in {GetEmbedding(st1, b)} }) :
           st1 \in {GetEmbedding(st, a)} })

\* get_cosine_distance(t, comment_text) for an entry t of the vocabulary.
TopicDistance(st, topic, text) ==
  IF topic = NaNTopic
  THEN [st |-> GetEmbedding(st, text), value |-> NaNArray]
  ELSE CosineDistance(st, topic, text)

\* [get_cosine_distance(topic_name, ct) for ct in texts]
RECURSIVE CohesionDistances(_, _, _, _)
CohesionDistances(st, topic_name, texts, distances) ==
  IF texts = <<>> THEN [st |-> st, values |-> distances]
  ELSE TheOne({ CohesionDistances(d.st, topic_name, Tail(texts),
                                  Append(distances, d.value)) :
                d \in {TopicDistance(st, topic_name, Head(texts))} })

\* topic_centered_cohesion(comments, topic_name)
TopicCenteredCohesion(st, comments, topic_name) ==
  TheOne({ [st |-> r.st, out |-> Return(Mean(r.values))] :
           r \in {CohesionDistances(st, topic_name,
                                    CommentTextCol(get_topic_comments(comments, topic_name)),
                                    <<>>)} })

\* [(get_cosine_distance(t, text), t) for t in topics if t not in
\* comment[TOPICS_COL]] from the k-th topic on.
RECURSIVE CandidateDistances(_, _, _, _, _)
CandidateDistances(st, comment, topics, k, distances) ==
  IF k > Len(topics) THEN [st |-> st, distances |-> distances]
  ELSE IF topics[k] \in ToSet(comment.topics)
       THEN CandidateDistances(st, comment, topics, k + 1, distances)
       ELSE TheOne({ CandidateDistances(d.st, comment, topics, k + 1,
                                        Append(distances, [distance |-> d.value,
                                                           topic |-> topics[k]])) :
                     d \in {TopicDistance(st, topics[k], comment.text)} })

\* min(distances) of a non-empty list of tuples: comparing a tuple that
\* holds an array with another tuple raises ValueError (the truth value of
\* an array is ambiguous); a list of one tuple is not compared.
MinOfTuples(distances) ==
  IF Len(distances) > 1 /\ \E i \in DOMAIN distances : distances[i].distance = NaNArray
  THEN Raise("ValueError")
  ELSE Return(Min(distances))

\* topic_centered_comment_separation(comment, topics)
TopicCenteredCommentSeparation(st, comment, topics) ==
  TheOne({ [st |-> r.st,
            out |-> IF r.distances = <<>>
                    THEN Return([distance |-> NaN, topic |-> "None"])
                    ELSE MinOfTuples(r.distances)] :
           r \in {CandidateDistances(st, comment, topics, 1, <<>>)} })

\* [topic_centered_comment_separation(comment, topics)[0] for comment in
\* records]: the first call that raises ends the loop.
RECURSIVE TopicCenteredSeparations(_, _, _, _)
TopicCenteredSeparations(st, records, topics, separations) ==
  IF records = <<>> THEN [st |-> st, out |-> Return(separations)]
  ELSE TheOne({ IF r.out.kind = "raise" THEN r
                ELSE TopicCenteredSeparations(r.st, Tail(records), topics,
                                              Append(separations, r.out.value.distance)) :
                r \in {TopicCenteredCommentSeparation(st, Head(records), topics)} })

MeanOfDefinedSeparations(separations) ==
  Return(Mean(SelectSeq(separations, LAMBDA x : ~IsNaN(x))))

\* np.mean(separations): a list that mixes arrays and floats is not a
\* rectangular array (ValueError); a list of arrays of nans has mean nan.
MeanOfSeparations(separations) ==
  IF /\ \E i \in DOMAIN separations : separations[i] = NaNArray
     /\ \E i \in DOMAIN separations : separations[i] # NaNArray
  THEN Raise("ValueError")
  ELSE Return(Mean(separations))

\* topic_centered_separation(comments, topic_name)
TopicCenteredSeparation(st, comments, topic_name) ==
  TheOne({ IF r.out.kind = "raise" THEN r
           ELSE [st |-> r.st, out |-> MeanOfSeparations(r.out.value)] :
           r \in {TopicCenteredSeparations(st, get_topic_comments(comments, topic_name),
                                           Unique(Explode(comments)), <<>>)} })

\* topic_centered_silhouette_for_topic(comments, topic_name)
TopicCenteredSilhouetteForTopic(st, comments, topic_name) ==
  TheOne({ TheOne({ IF se.out.kind = "raise" THEN se
                    ELSE [st |-> se.st,
                          out |-> Return(SilhouetteScore(co.out.value, se.out.value))] :
                    se \in {TopicCenteredSeparation(co.st, comments, topic_name)} }) :
           co \in {TopicCenteredCohesion(st, comments, topic_name)} })

\* [topic_centered_silhouette_for_topic(comments, topic) for topic in
\* topics] from the k-th topic on.
RECURSIVE TopicCenteredScores(_, _, _, _, _)
TopicCenteredScores(st, comments, topics, k, topic_scores) ==
  IF k > Len(topics) THEN [st |-> st, out |-> Return(topic_scores)]
  ELSE TheOne({ IF r.out.kind = "raise" THEN r
                ELSE TopicCenteredScores(r.st, comments, topics, k + 1,
                                         Append(topic_scores, r.out.value)) :
                r \in {TopicCenteredSilhouetteForTopic(st, comments, topics[k])} })

\* topic_centered_silhouette(comments)
TopicCenteredSilhouette(st, comments) ==
  TheOne({ IF r.out.kind = "raise" THEN r
           ELSE [st |-> r.st, out |-> AnalysisResults(r.out.value)] :
           r \in {TopicCenteredScores(st, comments, Unique(Explode(comments)), 1, <<>>)} })

SetTcState(r, method, arg, topics) ==
  /\ tc_ret' = [method |-> method, arg |-> arg, topics |-> topics, out |-> r.out]
  /\ embeddings' = r.st.cache
  /\ requests' = r.st.requests
  /\ UNCHANGED <<lateVars, tc_comments, provider, emb_log, sim_ret,
                 csVars, diffVars, parseVars, analyzeVars, simVars>>

topic_centered_cohesion(topic_name) ==
  \E r \in {TopicCenteredCohesion(EmbState, tc_comments, topic_name)} :
    SetTcState(r, "topic_centered_cohesion", topic_name, Unique(Explode(tc_comments)))

topic_centered_comment_separation(i, topics) ==
  \E r \in {TopicCenteredCommentSeparation(EmbState, tc_comments[i], topics)} :
    SetTcState(r, "topic_centered_comment_separation", tc_comments[i].text, topics)

topic_centered_separation(topic_name) ==
  \E r \in {TopicCenteredSeparation(EmbState, tc_comments, topic_name)} :
    SetTcState(r, "topic_centered_separation", topic_name, Unique(Explode(tc_comments)))

topic_centered_silhouette_for_topic(topic_name) ==
  \E r \in {TopicCenteredSilhouetteForTopic(EmbState, tc_comments, topic_name)} :
    SetTcState(r, "topic_centered_silhouette_for_topic", topic_name,
               Unique(Explode(tc_comments)))

topic_centered_silhouette ==
  \E r \in {TopicCenteredSilhouette(EmbState, tc_comments)} :
    SetTcState(r, "topic_centered_silhouette", "", Unique(Explode(tc_comments)))

InitTopicCentered ==
  /\ tc_comments \in CsFrames
  /\ tc_ret = None
  /\ EmbIdle /\ provider \in Providers
  /\ CsIdle /\ DiffIdle /\ ParseIdle /\ AnalyzeIdle /\ SimIdle /\ LateIdle

\* The topics lists topic_centered_comment_separation is given: the
\* vocabulary of the dataframe (as its callers do), or the topic names in
\* some order.
TopicsArguments == {Unique(Explode(tc_comments))} \cup Orderings(TopicNames)

NextTopicCentered ==
  \/ \E t \in ToSet(Unique(Explode(tc_comments))) : topic_centered_cohesion(t)
  \/ \E i \in DOMAIN tc_comments, topics \in TopicsArguments :
        topic_centered_comment_separation(i, topics)
  \/ \E t \in ToSet(Unique(Explode(tc_comments))) : topic_centered_separation(t)
  \/ \E t \in ToSet(Unique(Explode(tc_comments))) : topic_centered_silhouette_for_topic(t)
  \/ topic_centered_silhouette

SpecTopicCentered == InitTopicCentered /\ [][NextTopicCentered]_vars

(***************************************************************************)
(* The pairwise analyses                                                   *)
(***************************************************************************)
\* The dataframes the analyses are run on: the same two comments labelled
\* twice (in different row orders), and a dataframe that lacks comment 2.
AnalyzeFrames ==
  { <<Row(1, "c1", <<"t1">>), Row(2, "c2", <<"t2">>)>>,
    <<Row(2, "c2", <<"t1", "t2">>), Row(1, "c1", <<"t1">>)>>,
    <<Row(1, "c1", <<"t2">>)>> }

SliceFromIndex(items, index) == SubSeq(items, index, Len(items))

\* items[index + 1: len(items)] for the item at position index (from 1).
SliceAfter(items, index) == SubSeq(items, index + 1, Len(items))

\* for index, x in enumerate(items): for y in items[index + 1: len(items)]:
\* the pairs (x, y) the two loops visit from the index-th item on, in
\* order, each with the positions of x and y in items.
RECURSIVE PairsFrom(_, _)
PairsFrom(items, index) ==
  IF index > Len(items) THEN <<>>
  ELSE LET slice == SliceAfter(items, index)
       IN  [k \in DOMAIN slice |->
              [i |-> index, j |-> Len(items) - Len(slice) + k,
               first |-> items[index], second |-> slice[k]]]
           \o PairsFrom(items, index + 1)

\* The value get_embedding returns in embedding state st.  With a
\* deterministic provider it does not depend on the calls made before.
EmbeddingValue(st, text) == Returned(GetEmbedding(st, text))

FirstValue(values) == values[1]

\* max(pairs, key=lambda x: x[1])[1]: the first value no later one exceeds.
RECURSIVE MaxValue(_)
MaxValue(values) ==
  IF Len(values) = 1 THEN values[1]
  ELSE LET m == MaxValue(SubSeq(values, 1, Len(values) - 1))
       IN  IF RatLt(m, values[Len(values)]) THEN values[Len(values)] ELSE m

\* get_similarities_for_first_topic_set: for each topic of the first set
\* its greatest similarity to a topic of the second; max() of an empty
\* list raises ValueError.
SimilaritiesForFirst(st, topic_set_1, topic_set_2) ==
  IF topic_set_1 # <<>> /\ topic_set_2 = <<>> THEN Raise("ValueError")
  ELSE Return([i \in DOMAIN topic_set_1 |->
                 MaxValue([j \in DOMAIN topic_set_2 |->
                   CosineOfVectors(EmbeddingValue(st, topic_set_1[i]),
                                   EmbeddingValue(st, topic_set_2[j]))])])

\* The texts get_similarities_for_first_topic_set embeds, in call order.
RECURSIVE SimilarityCalls(_, _)
SimilarityCalls(topic_set_1, topic_set_2) ==
  IF topic_set_1 = <<>> \/ topic_set_2 = <<>> THEN <<>>
  ELSE LET n == Len(topic_set_2)
       IN  [k \in 1..(2 * n) |-> IF k % 2 = 1 THEN topic_set_1[1]
                                  ELSE topic_set_2[k \div 2]]
           \o SimilarityCalls(Tail(topic_set_1), topic_set_2)

TopicSetSimilarityOneSided(st, topic_set_1, topic_set_2) ==
  LET s1 == SimilaritiesForFirst(st, topic_set_1, topic_set_2)
      st1 == EmbedAll(st, SimilarityCalls(topic_set_1, topic_set_2)).st
  IN  IF s1.kind = "raise" THEN [st |-> st1, out |-> s1]
      ELSE [st |-> st1, out |-> Return(Mean(s1.value))]

\* get_topic_set_similarity(topic_set_1, topic_set_2): the embedding state
\* after the call and its outcome.
get_topic_set_similarity(st, topic_set_1, topic_set_2) ==
  LET s1 == SimilaritiesForFirst(st, topic_set_1, topic_set_2)
      st1 == EmbedAll(st, SimilarityCalls(topic_set_1, topic_set_2)).st
      s2 == SimilaritiesForFirst(st1, topic_set_2, topic_set_1)
      st2 == EmbedAll(st1, SimilarityCalls(topic_set_2, topic_set_1)).st
  IN  IF s1.kind = "raise" THEN [st |-> st1, out |-> s1]
      ELSE IF s2.kind = "raise" THEN [st |-> st2, out |-> s2]
      ELSE [st |-> st2, out |-> Return(Mean(<<Mean(s1.value), Mean(s2.value)>>))]

\* The evaluations of the pairwise metric over the pairs from the p-th on:
\* the first one that raises ends the analysis.
RECURSIVE EvaluatePairs(_, _, _, _, _)
EvaluatePairs(analysis, pairs, p, st, log) ==
  IF p > Len(pairs) THEN [st |-> st, log |-> log, out |-> Return(log)]
  ELSE LET r == IF analysis = "categorization_diffs"
                THEN [st |-> st,
                      out |-> get_pairwise_categorization_diffs(pairs[p].first,
                                                                pairs[p].second)]
                ELSE get_topic_set_similarity(st, pairs[p].first, pairs[p].second)
       IN  IF r.out.kind = "raise" THEN [st |-> r.st, log |-> log, out |-> r.out]
           ELSE EvaluatePairs(analysis, pairs, p + 1, r.st,
                              Append(log, [i |-> pairs[p].i, j |-> pairs[p].j,
                                           value |-> r.out.value]))

Values(log) == [p \in DOMAIN log |-> log[p].value]

\* An analysis: the metric over the pairs, then AnalysisResults of the values.
Analyze(analysis, items) ==
  LET r == EvaluatePairs(analysis, PairsFrom(items, 1), 1, EmbState, <<>>)
  IN  /\ evals' = r.log
      /\ analysis_ret' =
           [analysis |-> analysis,
            out |-> IF r.out.kind = "raise" THEN r.out
                    ELSE AnalysisResults(Values(r.log))]
      /\ embeddings' = r.st.cache
      /\ requests' = r.st.requests
      /\ UNCHANGED <<lateVars, simVars, tcVars, data, provider, emb_log, sim_ret, csVars, diffVars, parseVars>>

analyze_categorization_diffs ==
  /\ analysis_ret = None
  /\ Analyze("categorization_diffs", data)

\* topic_sets: df[TOPICS_COL].explode().unique() of every dataframe.
TopicSets(frames) == [k \in DOMAIN frames |-> Unique(Explode(frames[k]))]

analyze_topic_set_similarity ==
  /\ analysis_ret = None
  /\ Analyze("topic_set_similarity", TopicSets(data))

InitAnalyze ==
  /\ data \in SeqsUpTo(AnalyzeFrames, MaxData)
  /\ evals = <<>>
  /\ analysis_ret = None
  /\ EmbIdle /\ provider \in Providers
  /\ CsIdle /\ DiffIdle /\ ParseIdle
  /\ SimIdle /\ TcIdle /\ LateIdle

NextAnalyze == analyze_categorization_diffs \/ analyze_topic_set_similarity

SpecAnalyze == InitAnalyze /\ [][NextAnalyze]_vars

AnalysisReturned(analysis) ==
  /\ analysis_ret # None
  /\ analysis_ret.analysis = analysis
  /\ analysis_ret.out.kind = "return"

\* C10: an analysis of n dataframes that returns has evaluated its pairwise
\* metric once for every pair of list positions i < j, n(n-1)/2 times in
\* all, never for a position with itself nor for both (i, j) and (j, i),
\* each time on the dataframes (topic sets) at those two positions, and its
\* result summarizes exactly those values.  (An analysis that a metric
\* error ends has evaluated pairs i < j only, none twice.)
C10_EachUnorderedPairOnce ==
  analysis_ret # None =>
    LET n == Len(data)
        values == Values(evals)
        res == analysis_ret.out.value
    IN  /\ \A p \in DOMAIN evals : 1 <= evals[p].i /\ evals[p].i < evals[p].j /\ evals[p].j <= n
        /\ \A p, q \in DOMAIN evals :
              (evals[p].i = evals[q].i /\ evals[p].j = evals[q].j) => p = q
        /\ analysis_ret.out.kind = "return" =>
              /\ 2 * Len(evals) = n * (n - 1)
              /\ \A i, j \in 1..n : i < j => \E p \in DOMAIN evals : evals[p].i = i /\ evals[p].j = j
              /\ RatSum(values) = RatSum([p \in DOMAIN values |-> res.mean])
              /\ res.min \in ToSet(values) /\ res.max \in ToSet(values)
              /\ \A p \in DOMAIN values : ~RatLt(values[p], res.min) /\ ~RatLt(res.max, values[p])
        /\ AnalysisReturned("categorization_diffs") =>
              \A p \in DOMAIN evals :
                 Return(evals[p].value) =
                    get_pairwise_categorization_diffs(data[evals[p].i], data[evals[p].j])
        /\ AnalysisReturned("topic_set_similarity") =>
              \A p \in DOMAIN evals :
                 Return(evals[p].value) =
                    get_topic_set_similarity(EmbState, TopicSets(data)[evals[p].i],
                                             TopicSets(data)[evals[p].j]).out

\* Three dataframes, three evaluations, not all with the same value.
C10_Witness ==
  /\ AnalysisReturned("categorization_diffs")
  /\ Len(data) = 3 /\ Len(evals) = 3
  /\ evals[1].value # evals[3].value

(***************************************************************************)
(* get_topic_set_similarity on its own                                     *)
(***************************************************************************)
\* The topic sets the function is called on: every set of topic names, the
\* empty one included, in every order its iteration can list it.
TopicSetLists == UNION {Orderings(S) : S \in SUBSET TopicNames}

SimilarityCall ==
  /\ tss_ret = None
  /\ LET r == get_topic_set_similarity(EmbState, tss_1, tss_2)
     IN  /\ tss_ret' = r.out
         /\ embeddings' = r.st.cache
         /\ requests' = r.st.requests
  /\ UNCHANGED <<lateVars, tss_1, tss_2, provider, emb_log, sim_ret,
                 csVars, diffVars, parseVars, analyzeVars, tcVars>>

InitSim ==
  /\ tss_1 \in TopicSetLists
  /\ tss_2 \in TopicSetLists
  /\ tss_ret = None
  /\ EmbIdle /\ provider \in Providers
  /\ CsIdle /\ DiffIdle /\ ParseIdle /\ AnalyzeIdle /\ TcIdle /\ LateIdle

NextSim == SimilarityCall

SpecSim == InitSim /\ [][NextSim]_vars

\* The similarity of two names under the embedding model of the behaviour.
Sim(x, y) == CosineOfVectors(provider[x], provider[y])

\* The greatest similarity of a name to a name of the set B.
BestMatch(x, B) ==
  CHOOSE v \in {Sim(x, y) : y \in B} : \A y \in B : ~RatLt(v, Sim(x, y))

\* The average over the names listed in A of their best match in B.
MeanBestMatch(A, B) ==
  RatDiv(RatSum([i \in DOMAIN A |-> BestMatch(A[i], ToSet(B))]), Rat(Len(A), 1))

Half(x) == RatDiv(x, Rat(2, 1))

\* C11: for non-empty topic sets A and B the call returns
\* (mean_A + mean_B) / 2, mean_A being the average over a in A of the
\* greatest similarity of a to a name of B and mean_B the same with the
\* roles swapped; when the similarity of the names involved is the
\* indicator of equality this is (|A n B| / |A| + |A n B| / |B|) / 2.
C11_MeanOfBestMatches ==
  (tss_ret # None /\ tss_1 # <<>> /\ tss_2 # <<>>) =>
    LET A == ToSet(tss_1)
        B == ToSet(tss_2)
        common == Cardinality(A \cap B)
    IN  /\ tss_ret = Return(Half(RatAdd(MeanBestMatch(tss_1, tss_2),
                                         MeanBestMatch(tss_2, tss_1))))
        /\ (\A x, y \in A \cup B : Sim(x, y) = IF x = y THEN Rat(1, 1) ELSE Rat(0, 1)) =>
              tss_ret = Return(Half(RatAdd(Rat(common, Cardinality(A)),
                                           Rat(common, Cardinality(B)))))

\* Two names against one of them, under a model that tells them apart: 3/4.
C11_Witness ==
  /\ tss_ret = Return(Rat(3, 4))
  /\ Len(tss_1) = 2 /\ Len(tss_2) = 1
  /\ Sim(tss_1[1], tss_1[2]) = Rat(0, 1)

\* C12: the similarity of a non-empty topic set to itself is 1.0 (every
\* name has similarity 1 to itself), in whatever order the set is listed.
C12_SelfSimilarityIsOne ==
  (tss_ret # None /\ tss_1 # <<>> /\ ToSet(tss_1) = ToSet(tss_2)) =>
    /\ \A x \in ToSet(tss_1) : Sim(x, x) = Rat(1, 1)
    /\ tss_ret = Return(Rat(1, 1))

\* A set of three names, listed in two different orders, whose names are
\* not all alike to the model.
C12_Witness ==
  /\ tss_ret = Return(Rat(1, 1))
  /\ Len(tss_1) = 3 /\ ToSet(tss_1) = ToSet(tss_2) /\ tss_1 # tss_2
  /\ \E x, y \in ToSet(tss_1) : Sim(x, y) # Rat(1, 1)

(***************************************************************************)
(* The topic vocabulary of a dataset                                       *)
(***************************************************************************)
\* The topic names that occur in the topics of at least one record.
NamesOf(df) == UNION {ToSet(df[i].topics) : i \in DOMAIN df}

\* C13: the vocabulary derived from the dataset (here the one a
\* CentroidSilhouette instance keeps) lists every topic name some record
\* carries exactly once and nothing else, records with empty topics included.
C13_VocabularyIsTheNamesOfTheRecords ==
  /\ ToSet(cs_topics) = NamesOf(cs_comments)
  /\ \A i, j \in DOMAIN cs_topics : cs_topics[i] = cs_topics[j] => i = j

(***************************************************************************)
(* Separation of a comment                                                 *)
(***************************************************************************)
\* The cosine distance of two vectors of the embedding model.
VecDistance(u, v) == RatSub(Rat(1, 1), CosineOfVectors(u, v))

\* The rows of a dataframe whose topics contain the name.
MemberRows(df, t) == {i \in DOMAIN df : t \in ToSet(df[i].topics)}

\* The sum of the embeddings of the texts of a set of rows (it has the
\* direction of their mean).
RECURSIVE VecSum(_, _)
VecSum(df, I) ==
  IF I = {} THEN <<0, 0>>
  ELSE LET i == CHOOSE i \in I : TRUE
           v == provider[df[i].text]
           rest == VecSum(df, I \ {i})
       IN  <<v[1] + rest[1], v[2] + rest[2]>>

\* The entries of a topics list that a comment is not assigned.
Candidates(comment, topics) == {t \in ToSet(topics) : t \notin ToSet(comment.topics)}

RowOfText(df, text) == df[CHOOSE i \in DOMAIN df : df[i].text = text]

\* pair is (d, u) with u a candidate, d the distance to u, and no candidate
\* at a smaller distance.
IsClosest(pair, candidates, DistTo(_)) ==
  /\ pair.topic \in candidates
  /\ pair.distance = DistTo(pair.topic)
  /\ \A u \in candidates : ~RatLt(DistTo(u), pair.distance)

\* C14: for a comment with at least one topic of the given list that it is
\* not assigned (the candidates being topic names), the comment separation
\* returns (d, u), u a non-assigned topic at the least distance d from the
\* comment's text: to the embedding of the topic name for
\* topic_centered_comment_separation, to the centroid of the topic's
\* comments for CentroidSilhouette.comment_separation.  Assigned topics are
\* never returned and the distance decides, not the name.
C14_ClosestNonAssignedTopic ==
  /\ (tc_ret # None /\ tc_ret.method = "topic_centered_comment_separation") =>
        LET comment == RowOfText(tc_comments, tc_ret.arg)
            cands == Candidates(comment, tc_ret.topics)
            DistTo(u) == VecDistance(provider[u], provider[comment.text])
        IN  (cands # {} /\ NaNTopic \notin cands) =>
               /\ tc_ret.out.kind = "return"
               /\ IsClosest(tc_ret.out.value, cands, DistTo)
  /\ \A i \in DOMAIN tc_comments :
        LET comment == tc_comments[i]
            cands == Candidates(comment, Unique(Explode(tc_comments)))
            DistTo(u) == VecDistance(VecSum(tc_comments, MemberRows(tc_comments, u)),
                                     provider[comment.text])
            out == CommentSeparation(NewCentroidSilhouette(EmbState, tc_comments),
                                     comment).out
        IN  (cands # {} /\ NaNTopic \notin cands) =>
               /\ out.kind = "return"
               /\ IsClosest(out.value, cands, DistTo)

\* A comment assigned t1 only, with t2 farther from it than t3: t3 is
\* returned, with its distance.
C14_Witness ==
  /\ tc_ret # None /\ tc_ret.method = "topic_centered_comment_separation"
  /\ RowOfText(tc_comments, tc_ret.arg).topics = <<"t1">>
  /\ tc_ret.topics = <<"t1", "t2", "t3">>
  /\ tc_ret.out = Return([distance |-> VecDistance(provider["t3"], provider[tc_ret.arg]),
                          topic |-> "t3"])
  /\ RatLt(VecDistance(provider["t3"], provider[tc_ret.arg]),
           VecDistance(provider["t2"], provider[tc_ret.arg]))

\* C15: for a comment that is assigned every topic of the vocabulary (no
\* candidate is left), CentroidSilhouette.comment_separation and
\* topic_centered_comment_separation return (nan, None) and raise nothing.
C15_NoCandidateGivesNaNNone ==
  /\ (cs_ret # None /\ cs_ret.method = "comment_separation") =>
        (Candidates(RowOfText(cs_comments, cs_ret.arg), cs_topics) = {} =>
            cs_ret.out = Return([distance |-> NaN, topic |-> "None"]))
  /\ \A i \in DOMAIN cs_comments :
        Candidates(cs_comments[i], cs_topics) = {} =>
           TopicCenteredCommentSeparation(EmbState, cs_comments[i], cs_topics).out
              = Return([distance |-> NaN, topic |-> "None"])

\* comment_separation was called on a comment that carries both topics of
\* its dataframe, after another call had filled the embedding cache.
C15_Witness ==
  /\ cs_ret # None /\ cs_ret.method = "comment_separation"
  /\ Len(cs_topics) = 2
  /\ Candidates(RowOfText(cs_comments, cs_ret.arg), cs_topics) = {}
  /\ cs_ret.out = Return([distance |-> NaN, topic |-> "None"])
  /\ DOMAIN embeddings # {}

(***************************************************************************)
(* Separation of a topic                                                   *)
(***************************************************************************)
\* The least of the distances to the candidates.
LeastDistance(candidates, DistTo(_)) ==
  CHOOSE d \in {DistTo(u) : u \in candidates} :
    \A u \in candidates : ~RatLt(DistTo(u), d)

\* The topic-centered separation of a comment of the dataframe: the least
\* distance of its text to the name of a topic it is not assigned, nan
\* (undefined) when there is no such topic.
SeparationOfComment(df, comment) ==
  LET cands == Candidates(comment, Unique(Explode(df))) \ {NaNTopic}
      DistTo(u) == VecDistance(provider[u], provider[comment.text])
  IN  IF cands = {} THEN NaN ELSE LeastDistance(cands, DistTo)

\* The arithmetic mean of a list of defined values.
MeanOfDefined(values) == RatDiv(RatSum(values), Rat(Len(values), 1))

\* The separations of the comments assigned the topic, in row order.
MemberSeparations(df, t) ==
  LET members == get_topic_comments(df, t)
  IN  [i \in DOMAIN members |-> SeparationOfComment(df, members[i])]

\* Separation(t) as C16 states it: comments whose separation is undefined
\* are left out, and the others are averaged.
C16_UndefinedSeparationsExcluded ==
  (tc_ret # None /\ tc_ret.method = "topic_centered_separation") =>
    LET defined == SelectSeq(MemberSeparations(tc_comments, tc_ret.arg),
                             LAMBDA x : ~IsNaN(x))
    IN  (defined # <<>> /\ NaNTopic \notin ToSet(tc_ret.topics)) =>
           tc_ret.out = Return(MeanOfDefined(defined))

\* C16 (amended): topic_centered_separation leaves no comment out.  When
\* it returns, its value is the mean of the separations of all comments
\* assigned the topic, which is nan as soon as one of them is undefined (and
\* for a vocabulary entry without comments); it returns whenever the
\* vocabulary holds topic names only.
C16_SeparationIsMeanOverAllMembers ==
  (tc_ret # None /\ tc_ret.method = "topic_centered_separation") =>
    LET separations == MemberSeparations(tc_comments, tc_ret.arg)
    IN  /\ NaNTopic \notin ToSet(tc_ret.topics) => tc_ret.out.kind = "return"
        /\ tc_ret.out.kind = "return" =>
              tc_ret.out.value =
                 IF \E i \in DOMAIN separations : IsNaN(separations[i])
                 THEN NaN
                 ELSE MeanOfDefined(separations)

\* The separation of a topic of two comments, one with a defined separation
\* and one that carries every topic: nan.
C16_Witness ==
  /\ tc_ret # None /\ tc_ret.method = "topic_centered_separation"
  /\ LET separations == MemberSeparations(tc_comments, tc_ret.arg)
     IN  /\ Len(separations) = 2
         /\ \E i, j \in DOMAIN separations : IsNaN(separations[i]) /\ ~IsNaN(separations[j])
  /\ NaNTopic \notin ToSet(tc_ret.topics)
  /\ tc_ret.out = Return(NaN)

(***************************************************************************)
(* The silhouette analyses of a list of dataframes                         *)
(***************************************************************************)
\* topic_centered_silhouette(df) or CentroidSilhouette(df).silhouette(): the
\* embedding state after the call and its outcome.
SilhouetteOfFrame(analysis, st, df) ==
  IF analysis = "topic_centered_silhouette_scores"
  THEN TopicCenteredSilhouette(st, df)
  ELSE TheOne({ [st |-> r.c.emb, out |-> r.out] :
                r \in {Silhouette(NewCentroidSilhouette(st, df))} })

\* [silhouette(df).mean for df in data] from the k-th dataframe on: the
\* first silhouette that raises ends the analysis.
RECURSIVE SilhouetteMeans(_, _, _, _, _)
SilhouetteMeans(analysis, frames, k, st, log) ==
  IF k > Len(frames) THEN [st |-> st, log |-> log, out |-> Return(log)]
  ELSE TheOne({ IF r.out.kind = "raise" THEN [st |-> r.st, log |-> log, out |-> r.out]
                ELSE SilhouetteMeans(analysis, frames, k + 1, r.st,
                                     Append(log, [i |-> k, j |-> k,
                                                  value |-> r.out.value.mean])) :
                r \in {SilhouetteOfFrame(analysis, st, frames[k])} })

\* The scores of the dataframes, then AnalysisResults of the scores.
AnalyzeSilhouettes(analysis) ==
  \E r \in {SilhouetteMeans(analysis, data, 1, EmbState, <<>>)} :
    /\ evals' = r.log
    /\ analysis_ret' =
         [analysis |-> analysis,
          out |-> IF r.out.kind = "raise" THEN r.out
                  ELSE AnalysisResults(Values(r.log))]
    /\ embeddings' = r.st.cache
    /\ requests' = r.st.requests
    /\ UNCHANGED <<lateVars, data, provider, emb_log, sim_ret,
                   csVars, diffVars, parseVars, simVars, tcVars>>

analyze_topic_centered_silhouette_scores ==
  /\ analysis_ret = None
  /\ AnalyzeSilhouettes("topic_centered_silhouette_scores")

analyze_centroid_silhouette_scores ==
  /\ analysis_ret = None
  /\ AnalyzeSilhouettes("centroid_silhouette_scores")

InitScores ==
  /\ data \in SeqsUpTo(CsFrames, MaxData)
  /\ evals = <<>>
  /\ analysis_ret = None
  /\ EmbIdle /\ provider \in Providers
  /\ CsIdle /\ DiffIdle /\ ParseIdle /\ SimIdle /\ TcIdle /\ LateIdle

NextScores ==
  analyze_topic_centered_silhouette_scores \/ analyze_centroid_silhouette_scores

SpecScores == InitScores /\ [][NextScores]_vars

\* The rows of a dataframe whose comment separation is undefined: no entry
\* of the vocabulary is left unassigned.
UndefinedComments(df) ==
  {i \in DOMAIN df : Candidates(df[i], Unique(Explode(df))) = {}}

\* C17: an undefined (nan) comment separation is not dropped.  In both
\* silhouettes the separation and the silhouette of every topic the comment
\* is assigned are nan, the mean of the dataframe's AnalysisResults is nan,
\* and so are the dataframe's score and the mean of the AnalysisResults
\* that analyze_topic_centered_silhouette_scores and
\* analyze_centroid_silhouette_scores return.
C17_NaNIsNotDropped ==
  /\ \A k \in DOMAIN data : \A i \in UndefinedComments(data[k]) :
        LET df == data[k]
            instance == NewCentroidSilhouette(EmbState, df)
            tc == TopicCenteredSilhouette(EmbState, df).out
            cs == Silhouette(instance).out
        IN  /\ \A t \in ToSet(df[i].topics) :
                  /\ TopicCenteredSeparation(EmbState, df, t).out = Return(NaN)
                  /\ TopicCenteredSilhouetteForTopic(EmbState, df, t).out = Return(NaN)
                  /\ TopicSeparation(instance, t).out = Return(NaN)
                  /\ TopicSilhouette(instance, t).out = Return(NaN)
            /\ tc.kind = "return" /\ IsNaN(tc.value.mean)
            /\ cs.kind = "return" /\ IsNaN(cs.value.mean)
  /\ (analysis_ret # None /\ analysis_ret.out.kind = "return") =>
        /\ Len(evals) = Len(data)
        /\ \A k \in DOMAIN data :
              UndefinedComments(data[k]) # {} =>
                 /\ IsNaN(evals[k].value)
                 /\ IsNaN(analysis_ret.out.value.mean)

\* An analysis of two dataframes returned: one dataframe has a comment that
\* carries every topic, the other has a defined score, and the mean is nan.
C17_Witness ==
  /\ analysis_ret # None /\ analysis_ret.out.kind = "return"
  /\ analysis_ret.analysis = "centroid_silhouette_scores"
  /\ Len(data) = 2
  /\ UndefinedComments(data[1]) = {} /\ UndefinedComments(data[2]) # {}
  /\ ~IsNaN(evals[1].value) /\ IsNaN(evals[2].value)
  /\ IsNaN(analysis_ret.out.value.mean)

(***************************************************************************)
(* Silhouette of a topic                                                   *)
(***************************************************************************)
Zero == Rat(0, 1)

One == Rat(1, 1)

\* c and s are defined, non-negative and not both zero.
Scorable(c, s) ==
  /\ c.kind = "return" /\ s.kind = "return"
  /\ ~IsNaN(c.value) /\ ~IsNaN(s.value)
  /\ ~RatLt(c.value, Zero) /\ ~RatLt(s.value, Zero)
  /\ ~(c.value = Zero /\ s.value = Zero)

\* out is (s - c) / max(c, s), within [-1, 1], and positive exactly when
\* s > c.
IsSilhouetteOf(out, c, s) ==
  LET greater == IF RatLt(c, s) THEN s ELSE c
  IN  /\ out.kind = "return"
      /\ RatLt(Zero, greater)
      /\ out.value = RatDiv(RatSub(s, c), greater)
      /\ ~IsNaN(out.value)
      /\ ~RatLt(out.value, RatSub(Zero, One)) /\ ~RatLt(One, out.value)
      /\ RatLt(Zero, out.value) <=> RatLt(c, s)

\* C18: for a topic whose cohesion c and separation s are defined,
\* non-negative and not both zero, topic_centered_silhouette_for_topic and
\* CentroidSilhouette.topic_silhouette return (s - c) / max(c, s), a value
\* of [-1, 1] that is positive exactly when s > c.
C18_SilhouetteFormulaAndRange ==
  /\ (tc_ret # None /\ tc_ret.method = "topic_centered_silhouette_for_topic") =>
        LET c == TopicCenteredCohesion(EmbState, tc_comments, tc_ret.arg).out
            s == TopicCenteredSeparation(EmbState, tc_comments, tc_ret.arg).out
        IN  Scorable(c, s) => IsSilhouetteOf(tc_ret.out, c.value, s.value)
  /\ \A t \in NamesOf(tc_comments) :
        LET instance == NewCentroidSilhouette(EmbState, tc_comments)
            c == TopicCohesion(instance, t).out
            s == TopicSeparation(instance, t).out
        IN  Scorable(c, s) => IsSilhouetteOf(TopicSilhouette(instance, t).out,
                                             c.value, s.value)

\* A topic whose comments are farther from it than from another topic: its
\* silhouette is negative.
C18_Witness ==
  /\ tc_ret # None /\ tc_ret.method = "topic_centered_silhouette_for_topic"
  /\ tc_ret.out.kind = "return"
  /\ RatLt(tc_ret.out.value, Zero)
  /\ RatLt(Zero, TopicCenteredSeparation(EmbState, tc_comments, tc_ret.arg).out.value)

(***************************************************************************)
(* Silhouette of a dataset                                                 *)
(***************************************************************************)
\* The sum of F over a finite set.
SumOver(S, F(_)) ==
  LET order == CHOOSE o \in Orderings(S) : TRUE
  IN  RatSum([i \in DOMAIN order |-> F(order[i])])

\* results summarizes one value Score(t) for each name of the set: its mean
\* is their unweighted mean, and its min and max are among them and bound
\* them, unless one of them is nan, and then all three are nan.
SummarizesOnePerTopic(results, names, Score(_)) ==
  /\ results.mean = RatDiv(SumOver(names, Score), Rat(Cardinality(names), 1))
  /\ IF \E t \in names : IsNaN(Score(t))
     THEN IsNaN(results.mean) /\ IsNaN(results.min) /\ IsNaN(results.max)
     ELSE /\ \E t \in names : results.min = Score(t)
          /\ \E t \in names : results.max = Score(t)
          /\ \A t \in names : ~RatLt(Score(t), results.min) /\ ~RatLt(results.max, Score(t))

\* C19: the dataset-level silhouette summarizes one score per distinct
\* topic of the dataset, each with the same weight whatever the number of
\* records that carry the topic: whenever CentroidSilhouette.silhouette or
\* topic_centered_silhouette returns, its mean is the unweighted mean of
\* the silhouettes of the distinct topic names; and silhouette() returns
\* when every record of the dataset has a topic.
C19_OneScorePerTopic ==
  /\ (cs_ret # None /\ cs_ret.method = "silhouette") =>
        LET Score(t) ==
              TopicSilhouette(NewCentroidSilhouette(EmbState, cs_comments), t).out.value
        IN  /\ NaNTopic \notin ToSet(cs_topics) => cs_ret.out.kind = "return"
            /\ cs_ret.out.kind = "return" =>
                  SummarizesOnePerTopic(cs_ret.out.value, NamesOf(cs_comments), Score)
  /\ LET tc == TopicCenteredSilhouette(EmbState, cs_comments).out
         Score(t) == TopicCenteredSilhouetteForTopic(EmbState, cs_comments, t).out.value
     IN  /\ NaNTopic \notin ToSet(cs_topics) => tc.kind = "return"
         /\ tc.kind = "return" =>
               SummarizesOnePerTopic(tc.value, NamesOf(cs_comments), Score)

\* silhouette() of a dataset with a topic of two records and a topic of one
\* record, whose scores differ: the mean is half their sum.
C19_Witness ==
  /\ cs_ret # None /\ cs_ret.method = "silhouette" /\ cs_ret.out.kind = "return"
  /\ Len(cs_comments) = 3 /\ NamesOf(cs_comments) = {"t1", "t2"}
  /\ Cardinality(MemberRows(cs_comments, "t1")) = 2
  /\ LET Score(t) ==
           TopicSilhouette(NewCentroidSilhouette(EmbState, cs_comments), t).out.value
     IN  /\ ~IsNaN(Score("t1")) /\ ~IsNaN(Score("t2")) /\ Score("t1") # Score("t2")
         /\ cs_ret.out.value.mean = Half(RatAdd(Score("t1"), Score("t2")))

(***************************************************************************)
(* Centroid of a topic                                                     *)
(***************************************************************************)
\* C20: get_topic_centroid(t) returns the component-wise mean of the text
\* embeddings of exactly the records of the bound dataset whose topics
\* contain t, each counted once (and raises when there is no such record).
C20_CentroidIsMeanOfMembers ==
  (cs_ret # None /\ cs_ret.method = "get_topic_centroid") =>
    LET members == MemberRows(cs_comments, cs_ret.arg)
        sum == VecSum(cs_comments, members)
    IN  IF members = {}
        THEN cs_ret.out = Raise("ValueError")
        ELSE cs_ret.out = Return([k \in 1..2 |-> Rat(sum[k], Cardinality(members))])

\* The centroid of a topic of two records with different embeddings, in a
\* dataset that has a third record outside the topic.
C20_Witness ==
  /\ cs_ret # None /\ cs_ret.method = "get_topic_centroid"
  /\ cs_ret.out.kind = "return"
  /\ Len(cs_comments) = 3
  /\ MemberRows(cs_comments, cs_ret.arg) = {1, 2}
  /\ provider["c1"] # provider["c2"]
  /\ cs_ret.out.value = <<Rat(0, 1), Rat(4, 1)>>

(***************************************************************************)
(* AnalysisResults on its own                                              *)
(***************************************************************************)
\* The floats a list of values is drawn from.
FloatValues == {Rat(0, 1), Rat(1, 4), Rat(1, 2), Rat(3, 4), Rat(1, 1), NaN}

\* AnalysisResults(values)
analysis_results ==
  /\ ar_ret = None
  /\ ar_ret' = AnalysisResults(ar_values)
  /\ UNCHANGED <<ar_values, coreVars, thrVars, procVars, tailVars>>

InitStats ==
  /\ ar_values \in SeqsUpTo(FloatValues, MaxValues)
  /\ ar_ret = None
  /\ EmbIdle /\ provider = DefaultProvider
  /\ CsIdle /\ DiffIdle /\ ParseIdle /\ AnalyzeIdle /\ SimIdle /\ TcIdle
  /\ ThrIdle /\ ProcIdle /\ TailIdle

NextStats == analysis_results

SpecStats == InitStats /\ [][NextStats]_vars

Square(x) == IF IsNaN(x) THEN NaN ELSE Rat(x.n * x.n, x.d * x.d)

Times(k, x) == IF IsNaN(x) THEN NaN ELSE Rat(k * x.n, x.d)

\* x <= y on floats that are not NaN.
RatLe(x, y) == ~IsNaN(x) /\ ~IsNaN(y) /\ ~RatLt(y, x)

\* C21: for a non-empty list of NaN-free values, AnalysisResults holds the
\* arithmetic mean (n * mean is the sum), the population standard deviation
\* (its square is the mean of the squares minus the square of the mean), the
\* smallest and the largest value of the list, hence min <= mean <= max.
C21_SummaryStatistics ==
  (ar_ret # None /\ ar_values # <<>> /\ ~HasNaN(ar_values)) =>
    /\ ar_ret.kind = "return"
    /\ LET res == ar_ret.value
           n == Len(ar_values)
           squares == [i \in DOMAIN ar_values |-> Square(ar_values[i])]
       IN  /\ Times(n, res.mean) = RatSum(ar_values)
           /\ Times(n, RatAdd(res.stdev_squared, Square(res.mean))) = RatSum(squares)
           /\ res.min \in ToSet(ar_values) /\ res.max \in ToSet(ar_values)
           /\ \A i \in DOMAIN ar_values :
                 RatLe(res.min, ar_values[i]) /\ RatLe(ar_values[i], res.max)
           /\ RatLe(res.min, res.mean) /\ RatLe(res.mean, res.max)

\* AnalysisResults([0.5, 0.75, 0.25]): mean 0.5, min 0.25, max 0.75, and the
\* population variance 1/24 (the sample variance is 1/16).
C21_Witness ==
  /\ ar_values = <<Rat(1, 2), Rat(3, 4), Rat(1, 4)>>
  /\ ar_ret = Return([mean |-> Rat(1, 2), stdev_squared |-> Rat(1, 24),
                      min |-> Rat(1, 4), max |-> Rat(3, 4)])

(***************************************************************************)
(* AnalysisResults of an empty list                                        *)
(***************************************************************************)
\* The outcome reports no number: the construction raised, or its mean,
\* min and max are all NaN.
NoFiniteStatistics(out) ==
  \/ out.kind = "raise"
  \/ IsNaN(out.value.mean) /\ IsNaN(out.value.min) /\ IsNaN(out.value.max)

SilhouetteAnalyses == {"topic_centered_silhouette_scores", "centroid_silhouette_scores"}

\* C22: when the list of values is empty, constructing AnalysisResults
\* reports no numeric mean, min or max (it raises, or they are NaN): in an
\* analyze_categorization_diffs or analyze_topic_set_similarity of fewer
\* than two dataframes, in the silhouette of a dataframe without topics, and
\* in a silhouette analysis of no dataframes.
C22_EmptyListGivesNoStatistics ==
  /\ (analysis_ret # None /\ Len(data) < 2) =>
        /\ evals = <<>>
        /\ NoFiniteStatistics(analysis_ret.out)
  /\ NoFiniteStatistics(AnalysisResults(<<>>))
  /\ NoFiniteStatistics(TopicCenteredSilhouette(EmbState, <<>>).out)
  /\ NoFiniteStatistics(Silhouette(NewCentroidSilhouette(EmbState, <<>>)).out)
  /\ \A a \in SilhouetteAnalyses :
        LET r == SilhouetteMeans(a, <<>>, 1, EmbState, <<>>)
        IN  r.out = Return(<<>>) /\ NoFiniteStatistics(AnalysisResults(Values(r.log)))

\* An analysis of the topic sets of a single dataframe: no pair, no value.
C22_Witness ==
  /\ analysis_ret # None
  /\ analysis_ret.analysis = "topic_set_similarity"
  /\ Len(data) = 1 /\ evals = <<>>
  /\ analysis_ret.out = Raise("ValueError")

(***************************************************************************)
(* Cosine distance                                                         *)
(***************************************************************************)
Sign(i) == IF i < 0 THEN -1 ELSE IF i > 0 THEN 1 ELSE 0

\* c is the cosine of the angle between the non-zero vectors u and v: it has
\* the sign of their dot product, and its square is the square of the dot
\* product over the product of the squared norms.
IsCosineOf(c, u, v) ==
  /\ ~IsNaN(c)
  /\ Sign(c.n) = Sign(Dot(u, v))
  /\ c.n * c.n * NormSq(u) * NormSq(v) = Dot(u, v) * Dot(u, v) * c.d * c.d

\* C23: get_cosine_distance(a, b) is 1 - get_cosine_similarity(a, b), the
\* similarity being the cosine of the embeddings of a and b, and the distance
\* of a non-zero vector to itself is 0.
C23_DistanceIsOneMinusSimilarity ==
  /\ (sim_ret # None /\ sim_ret.kind = "similarity") =>
        IsCosineOf(sim_ret.value, provider[sim_ret.a], provider[sim_ret.b])
  /\ (sim_ret # None /\ sim_ret.kind = "distance") =>
        /\ IsCosineOf(RatSub(Rat(1, 1), sim_ret.value),
                      provider[sim_ret.a], provider[sim_ret.b])
        /\ (provider[sim_ret.a] = provider[sim_ret.b]) => sim_ret.value = Rat(0, 1)

\* The distance of "c1" (3, 4) to "c3" (4, 3) is 1 - 24/25.
C23_Witness ==
  /\ sim_ret # None /\ sim_ret.kind = "distance"
  /\ provider[sim_ret.a] = <<3, 4>> /\ provider[sim_ret.b] = <<4, 3>>
  /\ sim_ret.value = Rat(1, 25)

(***************************************************************************)
(* get_embedding called from several threads.  A call is a sequence of     *)
(* steps, each atomic (a dict lookup, the external request, a dict store); *)
(* the steps of different threads interleave freely.  comment_text and     *)
(* result are locals of the call.                                          *)
(***************************************************************************)
Threads == 1..MaxThreads

ThreadTexts == {"c1", "c2"}

NoVector == <<>>

\* embeddings[comment_text] of a cached string
AnyCachedValue(cache, text) == cache[CHOOSE k \in DOMAIN cache : TRUE]

CachedValue(cache, text) == cache[text]

\* embeddings[comment_text] = result
StoreResult(cache, text, result) == (text :> result) @@ cache

\* if comment_text in embeddings: the call enters one of the two branches.
begin_get_embedding(t, text) ==
  /\ thr[t].pc \in {"idle", "returned"}
  /\ thr[t].calls < MaxThreadCalls
  /\ thr' = [thr EXCEPT ![t] = [pc |-> IF text \in DOMAIN embeddings THEN "hit" ELSE "miss",
                                 text |-> text, result |-> NoVector,
                                 value |-> NoVector, calls |-> thr[t].calls + 1]]
  /\ UNCHANGED <<embeddings, requests, provider, emb_log, sim_ret,
                 csVars, diffVars, parseVars, analyzeVars, simVars, tcVars, statsVars, procVars, tailVars>>

\* return embeddings[comment_text]
return_cached(t) ==
  /\ thr[t].pc = "hit"
  /\ thr' = [thr EXCEPT ![t].pc = "returned",
                         ![t].value = CachedValue(embeddings, thr[t].text)]
  /\ UNCHANGED <<embeddings, requests, provider, emb_log, sim_ret,
                 csVars, diffVars, parseVars, analyzeVars, simVars, tcVars, statsVars, procVars, tailVars>>

\* response = vertex_client.models.embed_content(...); result = np.array(...)
embed_content(t) ==
  /\ thr[t].pc = "miss"
  /\ requests' = [requests EXCEPT ![thr[t].text] = @ + 1]
  /\ thr' = [thr EXCEPT ![t].pc = "store", ![t].result = provider[thr[t].text]]
  /\ UNCHANGED <<embeddings, provider, emb_log, sim_ret,
                 csVars, diffVars, parseVars, analyzeVars, simVars, tcVars, statsVars, procVars, tailVars>>

\* embeddings[comment_text] = result; return result
cache_result(t) ==
  /\ thr[t].pc = "store"
  /\ embeddings' = StoreResult(embeddings, thr[t].text, thr[t].result)
  /\ thr' = [thr EXCEPT ![t].pc = "returned", ![t].value = thr[t].result]
  /\ UNCHANGED <<requests, provider, emb_log, sim_ret,
                 csVars, diffVars, parseVars, analyzeVars, simVars, tcVars, statsVars, procVars, tailVars>>

InitThreads ==
  /\ thr = [t \in Threads |-> [pc |-> "idle", text |-> "c1", result |-> NoVector,
                                value |-> NoVector, calls |-> 0]]
  /\ EmbIdle /\ provider \in Providers
  /\ CsIdle /\ DiffIdle /\ ParseIdle /\ AnalyzeIdle /\ SimIdle /\ TcIdle
  /\ StatsIdle /\ ProcIdle /\ TailIdle

NextThreads ==
  \E t \in Threads :
    \/ \E text \in ThreadTexts : begin_get_embedding(t, text)
    \/ return_cached(t)
    \/ embed_content(t)
    \/ cache_result(t)

SpecThreads == InitThreads /\ [][NextThreads]_vars

\* C24: under any interleaving of concurrent get_embedding calls the cache
\* is never corrupted: every key present was requested and maps to the
\* vector the provider returns for exactly that string, and every call that
\* has returned returned the vector of its own argument.
C24_CacheNotCorrupted ==
  /\ \A k \in DOMAIN embeddings :
        /\ k \in ThreadTexts
        /\ requests[k] >= 1
        /\ embeddings[k] = provider[k]
  /\ \A t \in DOMAIN thr :
        /\ thr[t].pc = "returned" => thr[t].value = provider[thr[t].text]
        /\ thr[t].pc = "hit" => thr[t].text \in DOMAIN embeddings

\* Two threads asked for the same uncached string, each issued the request,
\* and both returned its vector; another string is cached beside it.
C24_Witness ==
  /\ \E t, u \in DOMAIN thr :
        /\ t # u
        /\ thr[t].pc = "returned" /\ thr[u].pc = "returned"
        /\ thr[t].text = "c2" /\ thr[u].text = "c2"
        /\ thr[t].value = provider["c2"] /\ thr[u].value = provider["c2"]
  /\ requests["c2"] = 2
  /\ DOMAIN embeddings = {"c1", "c2"}
  /\ provider["c1"] # provider["c2"]

(***************************************************************************)
(* The cache over the life of a process: the operations of the library,   *)
(* run one after the other in any order against the one module-level      *)
(* cache.  What an operation returns is dropped here; the state is the     *)
(* cache, with the cache the last operation started from.                  *)
(***************************************************************************)
\* The state after an operation that left the embedding state st.
SetProcState(op, st) ==
  /\ proc_last' = [op |-> op, before |-> embeddings]
  /\ embeddings' = st.cache
  /\ requests' = st.requests
  /\ UNCHANGED <<provider, emb_log, sim_ret, csVars, diffVars, parseVars,
                 analyzeVars, simVars, tcVars, statsVars, thrVars, tailVars>>

run_get_embedding(text) ==
  \E st \in {GetEmbedding(EmbState, text)} :
    SetProcState("get_embedding", [st EXCEPT !.log = emb_log])

run_get_cosine_distance(a, b) ==
  \E r \in {CosineDistance(EmbState, a, b)} :
    SetProcState("get_cosine_distance", [r.st EXCEPT !.log = emb_log])

\* get_pairwise_categorization_diffs does not embed anything.
run_get_pairwise_categorization_diffs(a, b) ==
  \E out \in {get_pairwise_categorization_diffs(a, b)} :
    SetProcState("get_pairwise_categorization_diffs", EmbState)

run_get_topic_set_similarity(topic_set_1, topic_set_2) ==
  \E r \in {get_topic_set_similarity(EmbState, topic_set_1, topic_set_2)} :
    SetProcState("get_topic_set_similarity", [r.st EXCEPT !.log = emb_log])

run_topic_centered_silhouette(df) ==
  \E r \in {TopicCenteredSilhouette(EmbState, df)} :
    SetProcState("topic_centered_silhouette", [r.st EXCEPT !.log = emb_log])

run_centroid_silhouette(df) ==
  \E r \in {Silhouette(NewCentroidSilhouette(EmbState, df))} :
    SetProcState("centroid_silhouette", [r.c.emb EXCEPT !.log = emb_log])

\* The topic sets the process compares.
TopicSetArguments == {<<"t1">>, <<"t1", "t2">>, <<"t3", "t2">>, <<>>}

InitProcess ==
  /\ proc_last = None
  /\ EmbIdle /\ provider \in Providers
  /\ CsIdle /\ DiffIdle /\ ParseIdle /\ AnalyzeIdle /\ SimIdle /\ TcIdle
  /\ StatsIdle /\ ThrIdle /\ TailIdle

NextProcess ==
  \/ \E text \in Texts : run_get_embedding(text)
  \/ \E a, b \in Texts : run_get_cosine_distance(a, b)
  \/ \E a, b \in AnalyzeFrames : run_get_pairwise_categorization_diffs(a, b)
  \/ \E topic_set_1, topic_set_2 \in TopicSetArguments :
        run_get_topic_set_similarity(topic_set_1, topic_set_2)
  \/ \E df \in CsFrames : run_topic_centered_silhouette(df)
  \/ \E df \in CsFrames : run_centroid_silhouette(df)

SpecProcess == InitProcess /\ [][NextProcess]_vars

\* Every entry of the first cache is an entry of the second.
Extends(cache, before) ==
  \A k \in DOMAIN before : k \in DOMAIN cache /\ cache[k] = before[k]

\* C25: the embedding cache only grows: over every step of the process (a
\* get_embedding, similarity, diff, topic-set or silhouette operation), a
\* string that is a key of the cache remains a key with the same vector.
C25_CacheOnlyGrows == [][Extends(embeddings', embeddings)]_vars

\* A centroid silhouette that started from a cache holding a topic name and
\* a comment text (left by earlier operations) and added the texts it
\* embedded.
C25_Witness ==
  /\ proc_last # None
  /\ proc_last.op = "centroid_silhouette"
  /\ "t3" \in DOMAIN proc_last.before /\ "c1" \in DOMAIN proc_last.before
  /\ Cardinality(DOMAIN embeddings) > Cardinality(DOMAIN proc_last.before)
  /\ Extends(embeddings, proc_last.before)
  /\ embeddings["t3"] = provider["t3"]

(***************************************************************************)
(* The copy of evals_lib.py under src/evals/clustering_evals: its          *)
(* topic-centered separation.  There the tuples are (topic, distance), and *)
(* topic_centered_separation takes component [1] of the tuple returned.    *)
(***************************************************************************)
\* [(t, get_cosine_distance(t, text)) for t in topics if t not in
\* comment[TOPICS_COL]] from the k-th topic on.
RECURSIVE EvalsCandidateDistances(_, _, _, _, _)
EvalsCandidateDistances(st, comment, topics, k, distances) ==
  IF k > Len(topics) THEN [st |-> st, distances |-> distances]
  ELSE IF topics[k] \in ToSet(comment.topics)
       THEN EvalsCandidateDistances(st, comment, topics, k + 1, distances)
       ELSE TheOne({ EvalsCandidateDistances(d.st, comment, topics, k + 1,
                                             Append(distances, [first |-> topics[k],
                                                                second |-> d.value])) :
                     d \in {TopicDistance(st, topics[k], comment.text)} })

\* x < y on (topic, distance) tuples whose topics are different strings:
\* the topics decide.
EvalsTupleLt(x, y) == NameOrder[x.first] < NameOrder[y.first]

\* min(distances): the first element that no later one is less than.
RECURSIVE EvalsMin(_)
EvalsMin(s) ==
  IF Len(s) = 1 THEN s[1]
  ELSE TheOne({ IF EvalsTupleLt(s[Len(s)], m) THEN s[Len(s)] ELSE m :
                m \in {EvalsMin(SubSeq(s, 1, Len(s) - 1))} })

\* min(distances) of a non-empty list of tuples: comparing the float nan
\* with a string raises TypeError; a list of one tuple is not compared.
EvalsMinOfTuples(distances) ==
  IF Len(distances) > 1 /\ \E i \in DOMAIN distances : distances[i].first = NaNTopic
  THEN Raise("TypeError")
  ELSE Return(EvalsMin(distances))

\* topic_centered_comment_separation(comment, topics)
EvalsTopicCenteredCommentSeparation(st, comment, topics) ==
  TheOne({ [st |-> r.st,
            out |-> IF r.distances = <<>>
                    THEN Return([first |-> NaN, second |-> None])
                    ELSE EvalsMinOfTuples(r.distances)] :
           r \in {EvalsCandidateDistances(st, comment, topics, 1, <<>>)} })

\* [topic_centered_comment_separation(comment, topics)[1] for comment in
\* records]: the first call that raises ends the loop.
RECURSIVE EvalsTopicCenteredSeparations(_, _, _, _)
EvalsTopicCenteredSeparations(st, records, topics, separations) ==
  IF records = <<>> THEN [st |-> st, out |-> Return(separations)]
  ELSE TheOne({ IF r.out.kind = "raise" THEN r
                ELSE EvalsTopicCenteredSeparations(r.st, Tail(records), topics,
                                                   Append(separations, r.out.value.second)) :
                r \in {EvalsTopicCenteredCommentSeparation(st, Head(records), topics)} })

\* np.mean(separations): a list that holds None cannot be summed and
\* divided (TypeError).
EvalsMeanOfSeparations(separations) ==
  IF \E i \in DOMAIN separations : separations[i] = None
  THEN Raise("TypeError")
  ELSE MeanOfSeparations(separations)

\* topic_centered_separation(comments, topic_name)
EvalsTopicCenteredSeparation(st, comments, topic_name) ==
  TheOne({ IF r.out.kind = "raise" THEN r
           ELSE [st |-> r.st, out |-> EvalsMeanOfSeparations(r.out.value)] :
           r \in {EvalsTopicCenteredSeparations(
                     st, SelectSeq(comments, LAMBDA row : topic_name \in ToSet(row.topics)),
                     Unique(Explode(comments)), <<>>)} })

evals_topic_centered_comment_separation(i, topics) ==
  \E r \in {EvalsTopicCenteredCommentSeparation(EmbState, tc_comments[i], topics)} :
    SetTcState(r, "topic_centered_comment_separation", tc_comments[i].text, topics)

evals_topic_centered_separation(topic_name) ==
  \E r \in {EvalsTopicCenteredSeparation(EmbState, tc_comments, topic_name)} :
    SetTcState(r, "topic_centered_separation", topic_name, Unique(Explode(tc_comments)))

NextEvalsCopy ==
  \/ \E i \in DOMAIN tc_comments, topics \in TopicsArguments :
        evals_topic_centered_comment_separation(i, topics)
  \/ \E t \in ToSet(Unique(Explode(tc_comments))) : evals_topic_centered_separation(t)

SpecEvalsCopy == InitTopicCentered /\ [][NextEvalsCopy]_vars

\* C26: in the src/evals/clustering_evals copy, topic_centered_separation
\* returns the mean, over the records assigned the topic, of the least
\* cosine distance from the record's text to a topic name not assigned to
\* it (stated for dataframes whose vocabulary holds topic names only and
\* whose records assigned the topic each have such a name).
C26_EvalsCopySeparationIsMeanOfLeastDistances ==
  (tc_ret # None /\ tc_ret.method = "topic_centered_separation") =>
    LET separations == MemberSeparations(tc_comments, tc_ret.arg)
    IN  (/\ NaNTopic \notin ToSet(tc_ret.topics)
         /\ separations # <<>>
         /\ \A i \in DOMAIN separations : ~IsNaN(separations[i])) =>
           tc_ret.out = Return(MeanOfDefined(separations))

(***************************************************************************)
(* vertex_model.py: retry_call.  The coroutine is at "call" before an      *)
(* attempt, at "sleep" after a failed one, at "exhausted" when the loop    *)
(* has ended, and at "done" when it has returned or raised.                *)
(***************************************************************************)
MAX_LLM_RETRIES == 3

RETRY_DELAY_SEC == 10

\* What func returns.
Responses == {"r1", "r2"}

\* What an attempt can do: func raises, or it returns a response that the
\* validator accepts, rejects, or raises on.
Attempts ==
  {[func |-> "raise", validator |-> "not called"]}
    \cup {[func |-> r, validator |-> v] : r \in Responses, v \in {"accept", "reject", "raise"}}

RECURSIVE Power(_, _)
Power(b, e) == IF e = 0 THEN 1 ELSE b * Power(b, e - 1)

DelayDoubling(retry_delay_sec, attempt) ==
  Rat(retry_delay_sec * Power(2, attempt - 1), 1)

\* delay = retry_delay_sec * (backoff_growth_rate ** (attempt - 1)), the
\* growth rate being 2.5
Delay(retry_delay_sec, attempt) ==
  Rat(retry_delay_sec * Power(5, attempt - 1), Power(2, attempt - 1))

othersOfRetry == <<coreVars, statsVars, thrVars, procVars, parVars, rateVars>>

\* One pass through the try block: response = await func(); if
\* validator(response): return response; an exception of either is caught.
retry_call_attempt(a) ==
  /\ rc_pc = "call"
  /\ rc_log' = Append(rc_log, [attempt |-> rc_attempt, func |-> a.func,
                               validator |-> a.validator])
  /\ IF a.validator = "accept"
     THEN rc_pc' = "done" /\ rc_ret' = Return(a.func)
     ELSE rc_pc' = "sleep" /\ rc_ret' = rc_ret
  /\ UNCHANGED <<rc_max_retries, rc_retry_delay_sec, rc_attempt, rc_sleeps, othersOfRetry>>

\* await asyncio.sleep(delay), and the next value of the loop variable.
retry_call_sleep ==
  /\ rc_pc = "sleep"
  /\ rc_sleeps' = Append(rc_sleeps, Delay(rc_retry_delay_sec, rc_attempt))
  /\ rc_attempt' = rc_attempt + 1
  /\ rc_pc' = IF rc_attempt + 1 <= rc_max_retries THEN "call" ELSE "exhausted"
  /\ UNCHANGED <<rc_max_retries, rc_retry_delay_sec, rc_log, rc_ret, othersOfRetry>>

\* raise Exception(f"Failed after {max_retries} attempts: ...")
retry_call_raise ==
  /\ rc_pc = "exhausted"
  /\ rc_pc' = "done"
  /\ rc_ret' = Raise("Exception")
  /\ UNCHANGED <<rc_max_retries, rc_retry_delay_sec, rc_attempt, rc_log, rc_sleeps,
                 othersOfRetry>>

\* retry_call(func, validator, max_retries, error_message, retry_delay_sec)
\* before its first attempt: range(1, max_retries + 1) is empty for 0.
InitRetry ==
  /\ rc_max_retries \in 0..MaxRetries
  /\ rc_retry_delay_sec \in {1, RETRY_DELAY_SEC}
  /\ rc_attempt = 1
  /\ rc_pc = IF rc_max_retries >= 1 THEN "call" ELSE "exhausted"
  /\ rc_log = <<>> /\ rc_sleeps = <<>> /\ rc_ret = None
  /\ EmbIdle /\ provider = DefaultProvider
  /\ CsIdle /\ DiffIdle /\ ParseIdle /\ AnalyzeIdle /\ SimIdle /\ TcIdle
  /\ StatsIdle /\ ThrIdle /\ ProcIdle /\ ParIdle /\ RateIdle

NextRetry ==
  \/ \E a \in Attempts : retry_call_attempt(a)
  \/ retry_call_sleep
  \/ retry_call_raise

SpecRetry == InitRetry /\ [][NextRetry]_vars

Failed(entry) == entry.validator # "accept"

FailedAttempts == {k \in DOMAIN rc_log : Failed(rc_log[k])}

\* C27: retry_call invokes func at most max_retries times, in attempts 1,
\* 2, ...; it returns the first response the validator accepts and makes no
\* call after it; every attempt that raised or was rejected is followed by
\* a wait of retry_delay_sec * 2.5^(attempt - 1), the last attempt too;
\* after max_retries failed attempts it raises and does not return.
C27_RetryCall ==
  /\ Len(rc_log) <= rc_max_retries
  /\ \A k \in DOMAIN rc_log : rc_log[k].attempt = k
  /\ \A k \in DOMAIN rc_log : ~Failed(rc_log[k]) =>
        /\ k = Len(rc_log)
        /\ rc_pc = "done"
        /\ rc_ret = Return(rc_log[k].func)
  /\ Len(rc_sleeps) = Cardinality(FailedAttempts) - (IF rc_pc = "sleep" THEN 1 ELSE 0)
  /\ \A k \in DOMAIN rc_sleeps :
        /\ Failed(rc_log[k])
        /\ k = 1 => rc_sleeps[k] = Rat(rc_retry_delay_sec, 1)
        /\ k > 1 => Times(2, rc_sleeps[k]) = Times(5, rc_sleeps[k - 1])
  /\ rc_pc = "done" =>
        IF FailedAttempts = DOMAIN rc_log
        THEN /\ rc_ret = Raise("Exception")
             /\ Len(rc_log) = rc_max_retries
             /\ Len(rc_sleeps) = rc_max_retries
        ELSE rc_ret.kind = "return"
  /\ rc_pc # "done" => rc_ret = None

\* Three attempts with the delay of call_llm: func raised, the validator
\* rejected, the validator raised; waits of 10, 25 and 62.5 seconds, then
\* the exception.
C27_Witness ==
  /\ rc_max_retries = MAX_LLM_RETRIES /\ rc_retry_delay_sec = RETRY_DELAY_SEC
  /\ rc_pc = "done" /\ rc_ret = Raise("Exception")
  /\ Len(rc_log) = 3
  /\ rc_log[1].func = "raise" /\ rc_log[2].validator = "reject"
  /\ rc_log[3].validator = "raise"
  /\ rc_sleeps = <<Rat(10, 1), Rat(25, 1), Rat(125, 2)>>

(***************************************************************************)
(* vertex_model.py: run_tasks_in_parallel.  asyncio.gather starts one      *)
(* limited_task per item; a task waits for the semaphore, runs func while  *)
(* holding it, and releases it when func has returned or raised.  The      *)
(* event loop runs one task at a time and switches at the awaits only.     *)
(***************************************************************************)
Items == {"x", "y"}

\* What func returns for an item.
FuncValues == {"a", "b"}

Running == {i \in DOMAIN par_pc : par_pc[i] = "running"}

\* The results in the order in which the tasks completed.
ResultsInCompletionOrder(results, order) == [k \in DOMAIN order |-> results[order[k]]]

\* What asyncio.gather returns: the results of the awaitables in the order
\* in which they were passed.
GatherResults(results, order) == [i \in DOMAIN results |-> results[i]]

othersOfPar == <<coreVars, statsVars, thrVars, procVars, retryVars, rateVars>>

\* async with semaphore (the counter is above 0), and the call func(item).
limited_task_acquire(i) ==
  /\ par_pc[i] = "waiting"
  /\ Cardinality(Running) < par_limit
  /\ par_pc' = [par_pc EXCEPT ![i] = "running"]
  /\ par_invoked' = [par_invoked EXCEPT ![i] = @ + 1]
  /\ UNCHANGED <<par_items, par_limit, par_results, par_order, par_ret, othersOfPar>>

\* func(item) returns: the semaphore is released and the task is done.
limited_task_return(i, v) ==
  /\ par_pc[i] = "running"
  /\ par_pc' = [par_pc EXCEPT ![i] = "finished"]
  /\ par_results' = [par_results EXCEPT ![i] = [item |-> par_items[i], value |-> v]]
  /\ par_order' = Append(par_order, i)
  /\ UNCHANGED <<par_items, par_limit, par_invoked, par_ret, othersOfPar>>

\* func(item) raises: the semaphore is released and the task has failed.
limited_task_raise(i) ==
  /\ par_pc[i] = "running"
  /\ par_pc' = [par_pc EXCEPT ![i] = "failed"]
  /\ par_order' = Append(par_order, i)
  /\ UNCHANGED <<par_items, par_limit, par_invoked, par_results, par_ret, othersOfPar>>

\* results = await asyncio.gather(*tasks); return results: every task is
\* done and none has failed.
gather_return ==
  /\ par_ret = None
  /\ \A i \in DOMAIN par_pc : par_pc[i] = "finished"
  /\ par_ret' = Return(GatherResults(par_results, par_order))
  /\ UNCHANGED <<par_items, par_limit, par_pc, par_invoked, par_results, par_order,
                 othersOfPar>>

\* await asyncio.gather(*tasks) raises the exception of a task that failed;
\* the other tasks are not cancelled.
gather_raise ==
  /\ par_ret = None
  /\ \E i \in DOMAIN par_pc : par_pc[i] = "failed"
  /\ par_ret' = Raise("Exception")
  /\ UNCHANGED <<par_items, par_limit, par_pc, par_invoked, par_results, par_order,
                 othersOfPar>>

InitParallel ==
  /\ par_items \in SeqsUpTo(Items, MaxItems)
  /\ par_limit \in 0..MaxLimit
  /\ par_pc = [i \in DOMAIN par_items |-> "waiting"]
  /\ par_invoked = [i \in DOMAIN par_items |-> 0]
  /\ par_results = [i \in DOMAIN par_items |-> None]
  /\ par_order = <<>>
  /\ par_ret = None
  /\ EmbIdle /\ provider = DefaultProvider
  /\ CsIdle /\ DiffIdle /\ ParseIdle /\ AnalyzeIdle /\ SimIdle /\ TcIdle
  /\ StatsIdle /\ ThrIdle /\ ProcIdle /\ RetryIdle /\ RateIdle

NextParallel ==
  \/ \E i \in DOMAIN par_items : limited_task_acquire(i)
  \/ \E i \in DOMAIN par_items, v \in FuncValues : limited_task_return(i, v)
  \/ \E i \in DOMAIN par_items : limited_task_raise(i)
  \/ gather_return
  \/ gather_raise

SpecParallel == InitParallel /\ [][NextParallel]_vars

DEFAULT_VERTEX_PARALLELISM == 100

Summaries == {[summary |-> "s1", source |-> "k1"], [summary |-> "s2", source |-> "k2"]}

\* prompts.append((prompt, statement, comments)) for every summary; the
\* prompt text plays no part below.
Prompts(summaries) ==
  [k \in DOMAIN summaries |->
     [statement |-> summaries[k].summary, comments |-> summaries[k].source]]

Answers == {"YES", "NO", "MAYBE", "UNSURE"}

\* What self.model.generate_data(prompt) does: it raises, or it returns the
\* parsed JSON of the model's text: a falsy value (None, an empty dict), a
\* dict with the three keys whatever the answer, or a dict without the key
\* "answer".
LLMOutcomes ==
  {[raises |-> TRUE], [raises |-> FALSE, response |-> [falsy |-> TRUE]]}
    \cup {[raises |-> FALSE,
           response |-> [answer |-> a, analysis |-> "analysis",
                         explanation |-> "explanation"]] : a \in Answers}
    \cup {[raises |-> FALSE,
           response |-> [analysis |-> "analysis", explanation |-> "explanation"]]}

NullRow(prompt_data) ==
  [statement |-> prompt_data.statement, comments |-> prompt_data.comments,
   has_hallucinations |-> "NULL", analysis |-> "NULL", explanation |-> "NULL",
   runtime |-> "NULL"]

\* evaluate(prompt_data) with the given behaviour of the LLM call: only the
\* call is inside the try block; response["answer"] of a dict without the
\* key raises KeyError.
Evaluate(prompt_data, llm) ==
  IF llm.raises THEN Return(NullRow(prompt_data))
  ELSE IF "falsy" \in DOMAIN llm.response THEN Return(NullRow(prompt_data))
  ELSE IF {"answer", "analysis", "explanation"} \subseteq DOMAIN llm.response
       THEN Return([statement |-> prompt_data.statement,
                    comments |-> prompt_data.comments,
                    has_hallucinations |-> llm.response.answer,
                    analysis |-> llm.response.analysis,
                    explanation |-> llm.response.explanation,
                    runtime |-> "seconds"])
       ELSE Raise("KeyError")

NoResults ==
  [totalSummaries |-> 0, metrics |-> [Hallucinations |-> [no |-> 0, yes |-> 0, maybe |-> 0]]]

\* One pass of the loop over results: the counter of the answer, if it is
\* one of the three, and totalSummaries.
Count(aggregated_results, result) ==
  LET h == aggregated_results.metrics.Hallucinations
      a == result.has_hallucinations
  IN  [totalSummaries |-> aggregated_results.totalSummaries + 1,
       metrics |-> [Hallucinations |->
          [yes |-> h.yes + (IF a = "YES" THEN 1 ELSE 0),
           no |-> h.no + (IF a = "NO" THEN 1 ELSE 0),
           maybe |-> h.maybe + (IF a = "MAYBE" THEN 1 ELSE 0)]]]

\* for result in results: the rows and the counts after the loop.
RECURSIVE Aggregate(_, _, _, _)
Aggregate(results, k, df, aggregated_results) ==
  IF k > Len(results) THEN [df |-> df, aggregated_results |-> aggregated_results]
  ELSE Aggregate(results, k + 1, Append(df, results[k].value),
                 Count(aggregated_results, results[k].value))

othersOfRate == <<coreVars, statsVars, thrVars, procVars, retryVars>>

\* The task of one prompt runs evaluate to its end.
evaluate(i, llm) ==
  /\ par_pc[i] = "running"
  /\ rate_llm' = [rate_llm EXCEPT ![i] = llm]
  /\ par_order' = Append(par_order, i)
  /\ \E out \in {Evaluate(par_items[i], llm)} :
        IF out.kind = "return"
        THEN /\ par_pc' = [par_pc EXCEPT ![i] = "finished"]
             /\ par_results' = [par_results EXCEPT
                                  ![i] = [item |-> par_items[i], value |-> out.value]]
        ELSE /\ par_pc' = [par_pc EXCEPT ![i] = "failed"]
             /\ par_results' = par_results
  /\ UNCHANGED <<par_items, par_limit, par_invoked, par_ret,
                 rate_df, rate_aggregated, rate_ret, othersOfRate>>

\* results = await run_tasks_in_parallel(prompts, evaluate) has returned:
\* the loop over the results, the CSV file and the report.
rate_hallucination_report ==
  /\ rate_ret = None
  /\ par_ret # None /\ par_ret.kind = "return"
  /\ \E r \in {Aggregate(par_ret.value, 1, <<>>, NoResults)} :
        /\ rate_df' = r.df
        /\ rate_aggregated' = r.aggregated_results
  /\ rate_ret' = Return("None")
  /\ UNCHANGED <<rate_llm, parVars, othersOfRate>>

\* await run_tasks_in_parallel(prompts, evaluate) has raised: so does
\* rate_hallucination, before any row is made.
rate_hallucination_raise ==
  /\ rate_ret = None
  /\ par_ret # None /\ par_ret.kind = "raise"
  /\ rate_ret' = Raise("KeyError")
  /\ UNCHANGED <<rate_llm, rate_df, rate_aggregated, parVars, othersOfRate>>

InitRate ==
  /\ \E summaries \in SeqsUpTo(Summaries, MaxSummaries) : par_items = Prompts(summaries)
  /\ par_limit = DEFAULT_VERTEX_PARALLELISM
  /\ par_pc = [i \in DOMAIN par_items |-> "waiting"]
  /\ par_invoked = [i \in DOMAIN par_items |-> 0]
  /\ par_results = [i \in DOMAIN par_items |-> None]
  /\ par_order = <<>>
  /\ par_ret = None
  /\ rate_llm = [i \in DOMAIN par_items |-> None]
  /\ rate_df = <<>>
  /\ rate_aggregated = NoResults
  /\ rate_ret = None
  /\ EmbIdle /\ provider = DefaultProvider
  /\ CsIdle /\ DiffIdle /\ ParseIdle /\ AnalyzeIdle /\ SimIdle /\ TcIdle
  /\ StatsIdle /\ ThrIdle /\ ProcIdle /\ RetryIdle

NextRate ==
  \/ \E i \in DOMAIN par_items : limited_task_acquire(i)
  \/ \E i \in DOMAIN par_items, llm \in LLMOutcomes : evaluate(i, llm)
  \/ gather_return
  \/ gather_raise
  \/ rate_hallucination_report
  \/ rate_hallucination_raise

SpecRate == InitRate /\ [][NextRate]_vars

\* The LLM call of the evaluation raised or returned an empty response.
NoResponse(llm) == llm.raises \/ "falsy" \in DOMAIN llm.response

ResultFields(row) ==
  <<row.has_hallucinations, row.analysis, row.explanation, row.runtime>>

\* One row per summary, in order: the row of an evaluation without a
\* response has 'NULL' in all its result fields, the row of any other
\* carries the answer; totalSummaries is the number of summaries, and
\* yes + no + maybe is the number of rows whose answer is YES, NO or MAYBE.
OneRowPerSummary ==
  LET h == rate_aggregated.metrics.Hallucinations
      counted == {k \in DOMAIN rate_df :
                    rate_df[k].has_hallucinations \in {"YES", "NO", "MAYBE"}}
  IN  /\ rate_ret = Return("None")
      /\ Len(rate_df) = Len(par_items)
      /\ \A k \in DOMAIN rate_df :
            /\ rate_df[k].statement = par_items[k].statement
            /\ rate_df[k].comments = par_items[k].comments
            /\ IF NoResponse(rate_llm[k])
               THEN ResultFields(rate_df[k]) = <<"NULL", "NULL", "NULL", "NULL">>
               ELSE rate_df[k].has_hallucinations = rate_llm[k].response.answer
      /\ rate_aggregated.totalSummaries = Len(par_items)
      /\ h.yes + h.no + h.maybe = Cardinality(counted)
      /\ h.yes + h.no + h.maybe <= rate_aggregated.totalSummaries
      /\ (h.yes + h.no + h.maybe = rate_aggregated.totalSummaries)
            <=> (\A k \in DOMAIN rate_df :
                   rate_df[k].has_hallucinations \in {"YES", "NO", "MAYBE"})

\* C29: rate_hallucination, when it has ended, has produced exactly one
\* result row per input summary, an evaluation whose LLM call raised or
\* returned an empty response giving a row of 'NULL' fields without
\* affecting the others; totalSummaries is the number of summaries and
\* yes + no + maybe <= totalSummaries, with equality exactly when every
\* answer is one of YES, NO, MAYBE.
C29_OneRowPerSummary == rate_ret # None => OneRowPerSummary

\* Every response that is not empty carries the keys answer, analysis and
\* explanation.
ResponsesHaveKeys ==
  \A i \in DOMAIN rate_llm :
    (rate_llm[i] # None /\ ~NoResponse(rate_llm[i])) => "answer" \in DOMAIN rate_llm[i].response

\* What holds of rate_hallucination: the statement of C29 whenever the
\* responses have the keys, and otherwise an exception and no row at all.
RateHallucinationOutcome ==
  rate_ret # None =>
    IF ResponsesHaveKeys THEN OneRowPerSummary
    ELSE rate_ret = Raise("KeyError") /\ rate_df = <<>>

(***************************************************************************)
(* The members of the topics a silhouette iterates over                    *)
(***************************************************************************)
\* The records of the dataset assigned to the topic.
MembersOf(comments, topic_name) ==
  {i \in DOMAIN comments : topic_name \in ToSet(comments[i].topics)}

\* C30: every topic that topic_centered_silhouette has iterated over (the
\* entries of comments[TOPICS_COL].explode().unique(), which are also the
\* __topics of a CentroidSilhouette of the same dataframe) has at least one
\* record of the dataset assigned to it, so that its cohesion and
\* separation were computed over a non-empty list of members; for every
\* dataset, records with empty topics included.
C30_IteratedTopicsHaveMembers ==
  (tc_ret # None /\ tc_ret.method = "topic_centered_silhouette") =>
    \A k \in DOMAIN tc_ret.topics :
      /\ MembersOf(tc_comments, tc_ret.topics[k]) # {}
      /\ Len(get_topic_comments(tc_comments, tc_ret.topics[k])) >= 1
====
